---- MODULE Spec2Model ----
(***************************************************************************)
(* GPS ingestion pipeline of diandianai.                                   *)
(*                                                                         *)
(*   AsyncBatchProcessor  (backend/database_optimizer.py): one write       *)
(*       buffer shared by all vehicles, flushed to PostgreSQL by size,     *)
(*       by a background timer task and by stop().                         *)
(*   OptimizedGPSCache    (backend/redis_optimizer.py): one write buffer    *)
(*       per vehicle, flushed to Redis through a pipeline.                 *)
(*                                                                         *)
(* Both classes run on one asyncio event loop: code between two awaits is  *)
(* one atomic step, and a coroutine is suspended only at real I/O          *)
(* (session.execute, session.commit, pipe.execute, asyncio.sleep, a        *)
(* contended lock).  Each action below is one such step.                   *)
(***************************************************************************)
EXTENDS Integers, Sequences, FiniteSets, TLC

(***************************************************************************)
(* Bounds of the model.                                                    *)
(***************************************************************************)
\* number of add_gps_data / cache_gps_point calls in one behaviour
MaxPoints == 3
\* stands for batch_size (500 in DatabaseConfig, 50 in OptimizedGPSCache)
BatchSize == 2
\* stands for the 100 samples _flush_batch keeps in processing_times
HistoryKeep == 2

Vehicles == {"v1", "v2"}
Times == {1, 2}
Producers == {"p1", "p2"}
Actors == Producers \cup {"bg", "stop"}

(***************************************************************************)
(* Measurements a producer may submit.  Nothing in the dataclasses         *)
(* GPSBatchData / GPSPoint restricts the values, so the inputs include a   *)
(* latitude above 90, a longitude above 180 and a negative speed.          *)
(***************************************************************************)
Sample(lat, lng, spd, dir, acc) ==
    [latitude |-> lat, longitude |-> lng, speed |-> spd, direction |-> dir,
     accuracy |-> acc]

GoodA    == Sample(10, 20, 5, 0, 5)
GoodB    == Sample(11, 21, 6, 90, 3)
BadLat   == Sample(95, 20, 5, 0, 5)
BadLng   == Sample(10, 181, 5, 0, 5)
BadSpeed == Sample(10, 20, -1, 0, 5)

\* the calls record_location may receive: the same key with two different
\* measurements, both vehicles, both timestamps, each kind of invalid value
Inputs ==
    { [vehicle_id |-> "v1", timestamp |-> 1, sample |-> GoodA],
      [vehicle_id |-> "v1", timestamp |-> 1, sample |-> GoodB],
      [vehicle_id |-> "v2", timestamp |-> 2, sample |-> GoodA],
      [vehicle_id |-> "v1", timestamp |-> 2, sample |-> BadLat],
      [vehicle_id |-> "v2", timestamp |-> 1, sample |-> BadLng],
      [vehicle_id |-> "v2", timestamp |-> 2, sample |-> BadSpeed] }

\* the calls add_gps_data may receive: the same key with two different
\* measurements, a later point of the same vehicle at another place, a second
\* vehicle with an invalid value
ProcessorInputs ==
    { [vehicle_id |-> "v1", timestamp |-> 1, sample |-> GoodA],
      [vehicle_id |-> "v1", timestamp |-> 1, sample |-> GoodB],
      [vehicle_id |-> "v1", timestamp |-> 2, sample |-> GoodB],
      [vehicle_id |-> "v2", timestamp |-> 2, sample |-> BadLat] }

\* the calls cache_gps_point may receive: two vehicles at two places, an
\* invalid value
CacheInputs ==
    { [vehicle_id |-> "v1", timestamp |-> 1, sample |-> GoodA],
      [vehicle_id |-> "v2", timestamp |-> 2, sample |-> GoodB],
      [vehicle_id |-> "v2", timestamp |-> 1, sample |-> BadLng] }

\* GPSBatchData; id is the identity of the submitted object (0 until it is
\* appended to the buffer), it is not a column of the table.
GPSBatchData(v, t, s, i) ==
    [vehicle_id |-> v, timestamp |-> t, latitude |-> s.latitude,
     longitude |-> s.longitude, speed |-> s.speed, direction |-> s.direction,
     accuracy |-> s.accuracy, id |-> i]

NoPoint == [vehicle_id |-> "none", timestamp |-> 0, latitude |-> 0,
            longitude |-> 0, speed |-> 0, direction |-> 0, accuracy |-> 0,
            id |-> 0]

\* a write that is not in progress
NoWrite == [batch |-> << >>, phase |-> "none"]

VARIABLES
    \* ---- AsyncBatchProcessor ----
    batch_buffer,       \* self.batch_buffer
    lock,               \* holder of self.lock, or "none"
    lockWaiters,        \* coroutines queued in asyncio.Lock.acquire, FIFO
    pendingPt,          \* the point a queued add_gps_data call will append
    running,            \* self.running
    prodPc,             \* per producer: "idle" | "waiting" | "flushing"
    prodResult,         \* outcome of the producer's last add_gps_data call
    bgPc,               \* flush_task: "notstarted" | "sleeping" | "flushing" | "done"
    cancelReq,          \* flush_task.cancel() called, CancelledError not yet delivered
    flushedSinceSleep,  \* last_flush_time was set after the current sleep began
    stopPc,             \* stop(): "idle" | "flushing" | "returned" | "raised"
    inflight,           \* per actor: the batch_data of its _execute_batch_insert
    durable,            \* rows of gps_locations_partitioned
    total_processed,    \* self.total_processed
    batch_count,        \* self.batch_count
    \* ---- history variables (what the log lines and the callers observe) ----
    nextId,             \* identity given to the next appended point
    lastWrite,          \* per key: the point of the last committed write
    failedIds,          \* ids of batches whose bulk upsert raised
    droppedIds,         \* ids of batches whose write was cancelled
    cancelledIds,       \* ids of batches whose flush received CancelledError
    processing_times,   \* self.processing_times
    bgFailures,         \* "Background flush error" log lines
    acceptedAtStop,     \* ids appended before stop() was called
    replaced,           \* rows an upsert has overwritten
    skips,              \* per point in the buffer: the timer ticks that left it there
    \* ---- OptimizedGPSCache ----
    write_buffer,       \* self.write_buffer: vehicle_id -> list of GPSPoint
    cachePc,            \* per coroutine: "idle" | "sleeping" | "flushing" | "done" | "raised"
    cachePipe,          \* per coroutine: the commands queued in its pipeline
    cacheResult,        \* outcome of the producer's last cache_gps_point call
    cacheCancelReq,     \* cleanup() called flush_task.cancel()
    write_count,        \* self.write_count
    redisCurrent,       \* Redis hash  v:<vehicle_id>
    redisGeo,           \* Redis geo set geo:vehicles
    redisTrack,         \* Redis list  t:<vehicle_id>
    pushed,             \* per vehicle: the points LPUSHed so far, in order
    cacheNextId,        \* identity given to the next cached point
    cacheBgFailures,    \* "Background flush error" log lines of the cache
    cacheFailures,      \* pipe.execute() calls that raised
    \* ---- GPSService.record_location ----
    gps_locations,      \* rows of the table gps_locations (model GPSLocation)
    vehicleCoords,      \* Vehicle.current_coordinates
    apiPc,              \* "idle" | "updating" (in _update_vehicle_location)
    apiRow,             \* the row the running call has committed
    apiResult,          \* outcome of the last call: "none" | "ok" | "error"
    apiNextId,          \* GPSLocation.id of the next row
    \* ---- PostgreSQLOptimizer: partitions of gps_locations_partitioned ----
    today,              \* datetime.now().date(), as a day number
    tables,             \* pg_tables: the names of the tables that exist
    tableRows,          \* the rows stored in the daily partitions
    maintPc,            \* "idle" | "creating" | "dropping"
    base_date,          \* create_daily_partitions: base_date of the run
    days_ahead,         \* create_daily_partitions: its argument
    loopIndex,          \* create_daily_partitions: the loop variable i
    partitions_to_drop, \* cleanup_old_partitions: tables still to drop
    txTables,           \* the tables as the open transaction sees them
    txAborted,          \* a statement of the open transaction has failed
    stmtFailures,       \* statements that failed for a reason of their own
    failedNames,        \* tables whose statement failed in the current run
    cutoff_date,        \* cleanup_old_partitions: cutoff_date of the run
    ownFailures,        \* tables whose statement failed for a reason of its own
    droppedTables,      \* tables the last cleanup run has dropped
    lastRun,            \* the run that ended last
    \* ---- the Celery task process_gps_batch ----
    taskPc,             \* "idle" | "retrying" | "failed"
    taskList,           \* gps_data_list of the running task
    taskRetries,        \* retries made so far
    taskReport,         \* what the task has returned, NoReport if nothing
    \* ---- _compress_gps_point and _decompress_gps_point on their own ----
    codecPoint,         \* the GPSPoint last compressed, NoGPSPoint if none
    codecBlock,         \* the bytes last produced or read
    codecResult,        \* what _decompress_gps_point made of codecBlock
    \* ---- _execute_batch_insert on the partitioned table ----
    bulkInsert,         \* batch_data of the last call and what it raised
    \* ---- which of the independent objects the behaviour drives ----
    active

dbVars == << batch_buffer, lock, lockWaiters, pendingPt, running, prodPc,
             prodResult, bgPc, cancelReq, flushedSinceSleep, stopPc, inflight,
             durable, total_processed, batch_count, nextId, lastWrite,
             failedIds, droppedIds, bgFailures, acceptedAtStop, replaced,
             skips, cancelledIds, processing_times >>

cacheVars == << write_buffer, cachePc, cachePipe, cacheResult, cacheCancelReq,
                write_count, redisCurrent, redisGeo, redisTrack, pushed, cacheNextId,
                cacheBgFailures, cacheFailures >>

apiVars == << gps_locations, vehicleCoords, apiPc, apiRow, apiResult, apiNextId >>

maintVars == << today, tables, tableRows, maintPc, base_date, days_ahead,
               loopIndex, partitions_to_drop, txTables, txAborted,
               stmtFailures, failedNames, cutoff_date, ownFailures,
               droppedTables, lastRun >>

taskVars == << taskPc, taskList, taskRetries, taskReport >>

codecVars == << codecPoint, codecBlock, codecResult >>

vars == << dbVars, cacheVars, apiVars, maintVars, taskVars, codecVars, bulkInsert, active >>

Keys == Vehicles \X Times
\* the identities of the points add_gps_data can append
PointIds == 1..MaxPoints
KeyOf(r) == << r.vehicle_id, r.timestamp >>
Ids(seq) == { seq[i].id : i \in 1..Len(seq) }

(***************************************************************************)
(* DurableStore: INSERT ... ON CONFLICT (vehicle_id, timestamp) DO UPDATE. *)
(***************************************************************************)
\* ON CONFLICT DO NOTHING
UpsertKeepOld(store, row) ==
    IF \E r \in store : KeyOf(r) = KeyOf(row) THEN store ELSE store \cup {row}

Upsert(store, row) ==
    { r \in store : KeyOf(r) # KeyOf(row) } \cup {row}

\* executemany applies the statement to the rows in list order
RECURSIVE ApplyRows(_, _)
ApplyRows(store, rows) ==
    IF rows = << >> THEN store
    ELSE ApplyRows(Upsert(store, Head(rows)), Tail(rows))

\* session.commit(): the rows of the transaction become visible together
CommitTx(store, rows) == ApplyRows(store, rows)

\* a transaction that commits the rows executed before the failing one
RollbackKeepsStaged(store, staged) == ApplyRows(store, staged)

\* session.rollback(): nothing of the transaction is visible
RollbackTx(store, staged) == store

\* the point lastWrite holds after rows are committed in list order
RECURSIVE LastOf(_, _)
LastOf(lw, rows) ==
    IF rows = << >> THEN lw
    ELSE LastOf([lw EXCEPT ![KeyOf(Head(rows))] = Head(rows)], Tail(rows))

(***************************************************************************)
(* AsyncBatchProcessor                                                     *)
(***************************************************************************)
DBInit ==
    /\ batch_buffer = << >>
    /\ lock = "none"
    /\ lockWaiters = << >>
    /\ pendingPt = [p \in Producers |-> NoPoint]
    /\ running = TRUE
    /\ prodPc = [p \in Producers |-> "idle"]
    /\ prodResult = [p \in Producers |-> "none"]
    /\ bgPc = "notstarted"
    /\ cancelReq = FALSE
    /\ flushedSinceSleep = FALSE
    /\ stopPc = "idle"
    /\ inflight = [a \in Actors |-> NoWrite]
    /\ durable = {}
    /\ total_processed = 0
    /\ batch_count = 0
    /\ nextId = 1
    /\ lastWrite = [k \in Keys |-> NoPoint]
    /\ failedIds = {}
    /\ droppedIds = {}
    /\ cancelledIds = {}
    /\ processing_times = << >>
    /\ bgFailures = 0
    /\ acceptedAtStop = {}
    /\ replaced = {}
    /\ skips = [i \in PointIds |-> 0]

\* the ticks counted for the points that are still in the buffer
SkipsAfter(buf) == [i \in PointIds |-> IF i \in Ids(buf) THEN skips[i] ELSE 0]

\* one more tick for the points a tick leaves in the buffer
SkipsAfterTick(buf) ==
    [i \in PointIds |-> IF i \in Ids(buf) THEN (IF skips[i] < 2 THEN skips[i] + 1 ELSE 2)
                        ELSE 0]

\* calls to add_gps_data made so far (appended or still queued on the lock)
Submitted == (nextId - 1) + Len(lockWaiters)

\* add_gps_data: "if len(self.batch_buffer) > self.batch_size"
BufferFullStrict(buf) == Len(buf) > BatchSize

\* add_gps_data: "if len(self.batch_buffer) >= self.batch_size"
BufferFull(buf) == Len(buf) >= BatchSize

\* a timer that flushes only a buffer that has reached batch_size
TimerFlushesWhenFull(flushed, buf) == ~flushed /\ BufferFull(buf)

\* _background_flush: "current_time - self.last_flush_time >=
\* self.flush_interval and self.batch_buffer"
TimerFlushes(flushed, buf) == ~flushed /\ buf # << >>

\* a handler that puts the failed batch back in front of the buffer
BufferRequeued(buf, batch) == batch \o buf

\* _flush_batch, except branch: log and re-raise, the buffer is not touched
BufferAfterFailure(buf, batch) == buf

\* a copy of the buffer that leaves the buffer as it is
BufferKeptAfterCopy(buf) == buf

\* _flush_batch: "batch_data = self.batch_buffer.copy()" and
\* "self.batch_buffer.clear()" with no await between them
BufferAfterSwap(buf) == << >>

\* a loop that leaves on the first error
LoopBreaksOnError(isRunning) == "done"

\* _background_flush, "except Exception": log, then test "while self.running"
LoopAfterError(isRunning) == IF isRunning THEN "sleeping" ELSE "done"

\* start(): create the background task; its first step enters the loop
Start ==
    /\ bgPc = "notstarted"
    /\ bgPc' = IF running THEN "sleeping" ELSE "done"
    /\ flushedSinceSleep' = FALSE
    /\ UNCHANGED << batch_buffer, lock, lockWaiters, pendingPt, running, prodPc,
                    prodResult, cancelReq, stopPc, inflight, durable,
                    total_processed, batch_count, nextId, lastWrite, failedIds,
                    droppedIds, cancelledIds, processing_times, bgFailures, acceptedAtStop, replaced, skips >>

\* add_gps_data once the lock is held: append, then flush if the buffer is
\* full.  _flush_batch copies and clears the buffer and suspends in
\* _execute_batch_insert with the lock still held.
AppendUnderLock(p, pt) ==
    LET buf == Append(batch_buffer, [pt EXCEPT !.id = nextId]) IN
    /\ nextId' = nextId + 1
    /\ IF BufferFull(buf)
       THEN /\ batch_buffer' = BufferAfterSwap(buf)
            /\ inflight' = [inflight EXCEPT ![p] = [batch |-> buf, phase |-> "execute"]]
            /\ lock' = p
            /\ prodPc' = [prodPc EXCEPT ![p] = "flushing"]
            /\ prodResult' = [prodResult EXCEPT ![p] = "none"]
       ELSE /\ batch_buffer' = buf
            /\ inflight' = inflight
            /\ lock' = "none"
            /\ prodPc' = [prodPc EXCEPT ![p] = "idle"]
            /\ prodResult' = [prodResult EXCEPT ![p] = "ok"]
    /\ skips' = SkipsAfter(batch_buffer')

\* add_gps_data(gps_data): "async with self.lock" takes a free lock without
\* suspending, otherwise the call queues behind the holder.
AddGpsData(p, v, t, s) ==
    /\ prodPc[p] = "idle"
    /\ Submitted < MaxPoints
    /\ IF lock = "none" /\ lockWaiters = << >>
       THEN /\ AppendUnderLock(p, GPSBatchData(v, t, s, 0))
            /\ UNCHANGED << lockWaiters, pendingPt >>
       ELSE /\ lockWaiters' = Append(lockWaiters, p)
            /\ pendingPt' = [pendingPt EXCEPT ![p] = GPSBatchData(v, t, s, 0)]
            /\ prodPc' = [prodPc EXCEPT ![p] = "waiting"]
            /\ prodResult' = [prodResult EXCEPT ![p] = "none"]
            /\ UNCHANGED << batch_buffer, inflight, lock, nextId, skips >>
    /\ UNCHANGED << running, bgPc, cancelReq, flushedSinceSleep, stopPc, durable,
                    total_processed, batch_count, lastWrite, failedIds,
                    droppedIds, cancelledIds, processing_times, bgFailures, acceptedAtStop, replaced >>

\* asyncio.Lock.release wakes the first waiter, which then runs the body
LockGranted(p) ==
    /\ prodPc[p] = "waiting"
    /\ lock = "none"
    /\ lockWaiters # << >> /\ Head(lockWaiters) = p
    /\ lockWaiters' = Tail(lockWaiters)
    /\ pendingPt' = [pendingPt EXCEPT ![p] = NoPoint]
    /\ AppendUnderLock(p, pendingPt[p])
    /\ UNCHANGED << running, bgPc, cancelReq, flushedSinceSleep, stopPc, durable,
                    total_processed, batch_count, lastWrite, failedIds,
                    droppedIds, cancelledIds, processing_times, bgFailures, acceptedAtStop, replaced >>

\* _background_flush: asyncio.sleep(flush_interval) returns.  The sleep lasts
\* at least flush_interval, so "current_time - last_flush_time >=
\* flush_interval" is false exactly when a flush completed during the sleep.
\* The flush is called without the lock.
BgTick ==
    /\ bgPc = "sleeping"
    /\ ~cancelReq
    /\ IF TimerFlushes(flushedSinceSleep, batch_buffer)
       THEN /\ inflight' = [inflight EXCEPT !["bg"] =
                               [batch |-> batch_buffer, phase |-> "execute"]]
            /\ batch_buffer' = BufferAfterSwap(batch_buffer)
            /\ bgPc' = "flushing"
            /\ skips' = SkipsAfter(batch_buffer')
            /\ UNCHANGED flushedSinceSleep
       ELSE /\ bgPc' = IF running THEN "sleeping" ELSE "done"
            /\ flushedSinceSleep' = FALSE
            /\ skips' = SkipsAfterTick(batch_buffer)
            /\ UNCHANGED << inflight, batch_buffer >>
    /\ UNCHANGED << lock, lockWaiters, pendingPt, running, prodPc, prodResult,
                    cancelReq, stopPc, durable, total_processed, batch_count,
                    nextId, lastWrite, failedIds, droppedIds, cancelledIds, processing_times, bgFailures,
                    acceptedAtStop, replaced >>

\* stop(): running = False, flush_task.cancel(), then _flush_batch() in the
\* caller's own coroutine, without the lock.
Stop ==
    /\ stopPc = "idle"
    /\ running' = FALSE
    /\ cancelReq' = (bgPc \in {"sleeping", "flushing"})
    /\ acceptedAtStop' = 1..(nextId - 1)
    /\ IF batch_buffer = << >>
       THEN /\ stopPc' = "returned"
            /\ UNCHANGED << inflight, batch_buffer, skips >>
       ELSE /\ stopPc' = "flushing"
            /\ inflight' = [inflight EXCEPT !["stop"] =
                               [batch |-> batch_buffer, phase |-> "execute"]]
            /\ batch_buffer' = BufferAfterSwap(batch_buffer)
            /\ skips' = SkipsAfter(batch_buffer')
    /\ UNCHANGED << lock, lockWaiters, pendingPt, prodPc, prodResult, bgPc,
                    flushedSinceSleep, durable, total_processed, batch_count,
                    nextId, lastWrite, failedIds, droppedIds, cancelledIds, processing_times, bgFailures, replaced >>

\* The task receives CancelledError at the await it is suspended on.  In the
\* sleep the loop breaks.  In session.execute the exception is not an
\* Exception, so neither handler of the flush runs: the session is closed, the
\* transaction is rolled back and the batch is gone.  In session.commit the
\* COMMIT may already have reached the server.
BgCancelled ==
    /\ cancelReq
    /\ cancelReq' = FALSE
    /\ bgPc' = "done"
    /\ inflight' = [inflight EXCEPT !["bg"] = NoWrite]
    /\ LET w == inflight["bg"] IN
       \/ /\ bgPc = "sleeping"
          /\ UNCHANGED << durable, lastWrite, droppedIds, cancelledIds >>
       \/ /\ bgPc = "flushing"
          /\ durable' = RollbackTx(durable, w.batch)
          /\ droppedIds' = droppedIds \cup Ids(w.batch)
          /\ cancelledIds' = cancelledIds \cup Ids(w.batch)
          /\ UNCHANGED lastWrite
       \/ /\ bgPc = "flushing" /\ w.phase = "commit"
          /\ durable' = CommitTx(durable, w.batch)
          /\ lastWrite' = LastOf(lastWrite, w.batch)
          /\ cancelledIds' = cancelledIds \cup Ids(w.batch)
          /\ UNCHANGED droppedIds
    /\ replaced' = replaced \cup (durable \ durable')
    /\ UNCHANGED << batch_buffer, lock, lockWaiters, pendingPt, running, prodPc,
                    prodResult, flushedSinceSleep, stopPc, total_processed,
                    batch_count, nextId, failedIds, bgFailures, acceptedAtStop,
                    skips, processing_times >>

KeysOfBatch(batch) == { KeyOf(batch[i]) : i \in 1..Len(batch) }

\* a coroutine whose write can take a step: a cancelled task only receives
\* its CancelledError
Writing(a) ==
    /\ inflight[a].phase # "none"
    /\ a = "bg" => ~cancelReq

\* a history that is never cut
HistoryKeepsAll(times) == times

\* "if len(self.processing_times) > 100:
\*      self.processing_times = self.processing_times[-100:]"
TrimHistory(times) ==
    IF Len(times) > HistoryKeep
    THEN SubSeq(times, Len(times) - HistoryKeep + 1, Len(times))
    ELSE times

\* What the caller of _flush_batch does when the flush is over:
\*   add_gps_data   leaves "async with self.lock" and returns or raises;
\*   the loop       logs an exception and starts the next sleep;
\*   stop()         returns or raises.
\* A successful flush has set total_processed, batch_count, last_flush_time
\* and appended its processing_time, written here as the number of the flush.
FlushDone(a, ok, batch) ==
    /\ inflight' = [inflight EXCEPT ![a] = NoWrite]
    /\ lock' = IF a \in Producers THEN "none" ELSE lock
    /\ prodPc' = IF a \in Producers THEN [prodPc EXCEPT ![a] = "idle"] ELSE prodPc
    /\ prodResult' = IF a \in Producers
                     THEN [prodResult EXCEPT ![a] = IF ok THEN "ok" ELSE "error"]
                     ELSE prodResult
    /\ bgPc' = IF a = "bg"
               THEN (IF ok THEN (IF running THEN "sleeping" ELSE "done")
                           ELSE LoopAfterError(running))
               ELSE bgPc
    /\ bgFailures' = IF a = "bg" /\ ~ok THEN bgFailures + 1 ELSE bgFailures
    /\ stopPc' = IF a = "stop" THEN (IF ok THEN "returned" ELSE "raised") ELSE stopPc
    /\ flushedSinceSleep' = IF a = "bg" THEN FALSE
                            ELSE IF ok THEN TRUE ELSE flushedSinceSleep
    /\ total_processed' = IF ok THEN total_processed + Len(batch) ELSE total_processed
    /\ batch_count' = IF ok THEN batch_count + 1 ELSE batch_count
    /\ processing_times' = IF ok
                           THEN TrimHistory(Append(processing_times, batch_count + 1))
                           ELSE processing_times
    /\ failedIds' = IF ok THEN failedIds ELSE failedIds \cup Ids(batch)
    /\ batch_buffer' = IF ok THEN batch_buffer
                       ELSE BufferAfterFailure(batch_buffer, batch)
    /\ skips' = SkipsAfter(batch_buffer')

\* session.execute(stmt, batch_data) returns: every row is staged in the
\* transaction.  A row whose key another open transaction has already written
\* waits for that transaction to end.
ExecuteOk(a) ==
    /\ Writing(a)
    /\ inflight[a].phase = "execute"
    /\ \A b \in Actors \ {a} :
          inflight[b].phase = "commit" =>
             KeysOfBatch(inflight[b].batch) \cap KeysOfBatch(inflight[a].batch) = {}
    /\ inflight' = [inflight EXCEPT ![a].phase = "commit"]
    /\ UNCHANGED << batch_buffer, lock, lockWaiters, pendingPt, running, prodPc,
                    prodResult, bgPc, cancelReq, flushedSinceSleep, stopPc,
                    durable, total_processed, batch_count, nextId, lastWrite,
                    failedIds, droppedIds, cancelledIds, processing_times, bgFailures, acceptedAtStop, replaced,
                    skips >>

\* session.execute raises at row k+1 after staging k rows:
\* "except Exception: await session.rollback(); raise e"
ExecuteFail(a, k) ==
    /\ Writing(a)
    /\ inflight[a].phase = "execute"
    /\ k \in 0..(Len(inflight[a].batch) - 1)
    /\ durable' = RollbackTx(durable, SubSeq(inflight[a].batch, 1, k))
    /\ replaced' = replaced \cup (durable \ durable')
    /\ FlushDone(a, FALSE, inflight[a].batch)
    /\ UNCHANGED << lockWaiters, pendingPt, running, cancelReq, nextId,
                    lastWrite, droppedIds, cancelledIds, acceptedAtStop >>

\* session.commit() succeeds
CommitOk(a) ==
    /\ Writing(a)
    /\ inflight[a].phase = "commit"
    /\ durable' = CommitTx(durable, inflight[a].batch)
    /\ lastWrite' = LastOf(lastWrite, inflight[a].batch)
    /\ replaced' = replaced \cup (durable \ durable')
    /\ FlushDone(a, TRUE, inflight[a].batch)
    /\ UNCHANGED << lockWaiters, pendingPt, running, cancelReq, nextId,
                    droppedIds, cancelledIds, acceptedAtStop >>

\* session.commit() raises: rollback, raise
CommitFail(a) ==
    /\ Writing(a)
    /\ inflight[a].phase = "commit"
    /\ durable' = RollbackTx(durable, inflight[a].batch)
    /\ replaced' = replaced \cup (durable \ durable')
    /\ FlushDone(a, FALSE, inflight[a].batch)
    /\ UNCHANGED << lockWaiters, pendingPt, running, cancelReq, nextId,
                    lastWrite, droppedIds, cancelledIds, acceptedAtStop >>

\* one step of the batch processor; the cache and the service stay as they are
OnlyProcessor ==
    /\ active = "processor"
    /\ UNCHANGED << cacheVars, apiVars, maintVars, taskVars, codecVars, bulkInsert, active >>

DBNext ==
    \/ active = "processor" /\ Start /\ OnlyProcessor
    \/ \E p \in Producers, i \in ProcessorInputs :
          active = "processor" /\ AddGpsData(p, i.vehicle_id, i.timestamp, i.sample) /\ OnlyProcessor
    \/ \E p \in Producers : active = "processor" /\ LockGranted(p) /\ OnlyProcessor
    \/ active = "processor" /\ BgTick /\ OnlyProcessor
    \/ active = "processor" /\ Stop /\ OnlyProcessor
    \/ active = "processor" /\ BgCancelled /\ OnlyProcessor
    \/ \E a \in Actors : active = "processor" /\ ExecuteOk(a) /\ OnlyProcessor
    \/ \E a \in Actors, k \in 0..(MaxPoints - 1) : active = "processor" /\ ExecuteFail(a, k) /\ OnlyProcessor
    \/ \E a \in Actors : active = "processor" /\ CommitOk(a) /\ OnlyProcessor
    \/ \E a \in Actors : active = "processor" /\ CommitFail(a) /\ OnlyProcessor


(***************************************************************************)
(* GPSQueryOptimizer: reads of gps_locations_partitioned.  Each is one     *)
(* SELECT, a function of the rows committed when it runs.                  *)
(***************************************************************************)
\* the rows of a set in "ORDER BY timestamp DESC"; within one vehicle the
\* primary key makes the timestamps distinct
RECURSIVE OrderByTimestampDesc(_)
OrderByTimestampDesc(rows) ==
    IF rows = {} THEN << >>
    ELSE LET top == CHOOSE r \in rows : \A q \in rows : q.timestamp <= r.timestamp
         IN  << top >> \o OrderByTimestampDesc(rows \ {top})

\* LIMIT n
Limit(rows, n) == SubSeq(rows, 1, IF n < Len(rows) THEN n ELSE Len(rows))

\* GPSQueryOptimizer.get_vehicle_track(vehicle_id, start_time, end_time,
\* limit): "WHERE vehicle_id = :vehicle_id AND timestamp BETWEEN :start_time
\* AND :end_time ORDER BY timestamp DESC LIMIT :limit"
QueryVehicleTrack(vehicle_id, start_time, end_time, limit) ==
    Limit(OrderByTimestampDesc(
             { r \in durable : /\ r.vehicle_id = vehicle_id
                               /\ start_time <= r.timestamp
                               /\ r.timestamp <= end_time }),
          limit)

\* the places of the model as (lng, lat) in degrees, and the centres the
\* radius queries are made from
PlaceA == << 20, 10 >>
PlaceB == << 21, 11 >>
PlaceC == << 22, 12 >>
Centers == { PlaceA, PlaceC }
RadiusKmArgs == { 100, 200, 400 }

\* great-circle distance of two places in km, rounded to the km, as GEORADIUS
\* and the geography type compute it; 10000 stands for the distance of any
\* other two places of the model, which are further apart than that
HaversineKm(p, q) ==
    IF p = q THEN 0
    ELSE IF {p, q} = {PlaceA, PlaceB} THEN 156
    ELSE IF {p, q} = {PlaceB, PlaceC} THEN 156
    ELSE IF {p, q} = {PlaceA, PlaceC} THEN 312
    ELSE 10000

RadiusMetersArgs == { 100000, 200000, 400000 }
WindowArgs == { 1, 2 }
NowArgs == { 2, 3 }

\* the integer part of a square root
ISqrt(n) == CHOOSE k \in 0..n : k * k <= n /\ n < (k + 1) * (k + 1)

\* ST_Distance(geom, point) of two geometries of SRID 4326: the planar
\* distance of the coordinates, in degrees; here in tenths of a degree
StDistance(p, q) ==
    ISqrt(100 * ((p[1] - q[1]) * (p[1] - q[1]) + (p[2] - q[2]) * (p[2] - q[2])))

\* ST_DWithin(geom, point::geography, radius_meters): the distance on the
\* globe, in meters
StDWithin(p, q, radius_meters) == HaversineKm(p, q) * 1000 <= radius_meters

\* the orders of the members of a set
Orders(S) ==
    { s \in [1..Cardinality(S) -> S] :
         \A i, j \in 1..Cardinality(S) : i # j => s[i] # s[j] }

\* GPSQueryOptimizer.get_vehicles_in_area(center_lat, center_lng,
\* radius_meters, time_window_minutes) called at the minute now:
\* recent_positions is, per vehicle, the latest of the rows that pass
\* "timestamp >= :since_time AND ST_DWithin(...)" with the ST_Distance of
\* its geom as distance_meters; the outer SELECT keeps "distance_meters <=
\* :radius_meters" and orders by distance_meters.  Rows at the same distance
\* come in an order PostgreSQL does not define: the possible results.
GetVehiclesInArea(center_lat, center_lng, radius_meters, time_window_minutes, now) ==
    LET since_time == now - time_window_minutes
        point == << center_lng, center_lat >>
        geom(r) == << r.longitude, r.latitude >>
        passing == { r \in durable :
                        /\ r.timestamp >= since_time
                        /\ StDWithin(geom(r), point, radius_meters) }
        recent_positions ==
            { r \in passing :
                 \A q \in passing :
                    q.vehicle_id = r.vehicle_id => q.timestamp <= r.timestamp }
        distance_meters(r) == StDistance(geom(r), point)
        selected == { r \in recent_positions :
                         distance_meters(r) <= 10 * radius_meters }
        item(r) == [vehicle_id |-> r.vehicle_id, latitude |-> r.latitude,
                    longitude |-> r.longitude, timestamp |-> r.timestamp,
                    distance_meters |-> distance_meters(r)]
    IN  { [i \in 1..Len(s) |-> item(s[i])] : s \in
             { o \in Orders(selected) :
                  \A i \in 1..(Len(o) - 1) :
                     distance_meters(o[i]) <= distance_meters(o[i + 1]) } }

\* what a call gives when PostgreSQL rejects its statement: the exception
\* of session.execute leaves the function
QueryError == "error"

\* the groups of the SELECT of get_vehicle_statistics, "WHERE vehicle_id =
\* ANY(:vehicle_ids) AND timestamp >= :since_time GROUP BY vehicle_id", with
\* COUNT(*), MAX(speed), MIN(timestamp), MAX(timestamp) and the two points
\* ST_MakePoint(MIN(longitude), MIN(latitude)) and ST_MakePoint(MAX(
\* longitude), MAX(latitude)) handed to ST_Distance
StatisticsGroups(vehicle_ids, since_time) ==
    LET rows(v) == { r \in durable : r.vehicle_id = v /\ r.timestamp >= since_time }
        least(S) == CHOOSE x \in S : \A y \in S : x <= y
        most(S) == CHOOSE x \in S : \A y \in S : y <= x
    IN  [v \in { w \in vehicle_ids : rows(w) # {} } |->
           [point_count |-> Cardinality(rows(v)),
            max_speed |-> most({ r.speed : r \in rows(v) }),
            first_update |-> least({ r.timestamp : r \in rows(v) }),
            last_update |-> most({ r.timestamp : r \in rows(v) }),
            low_corner |-> << least({ r.longitude : r \in rows(v) }),
                              least({ r.latitude : r \in rows(v) }) >>,
            high_corner |-> << most({ r.longitude : r \in rows(v) }),
                               most({ r.latitude : r \in rows(v) }) >>]]

\* "ST_Distance(...)::geography": the cast is applied to the double
\* precision result of ST_Distance; PostGIS defines casts to geography from
\* geometry and bytea only
DoubleCastsToGeography == FALSE

\* GPSQueryOptimizer.get_vehicle_statistics(vehicle_ids, time_window_hours)
\* called at the hour now: PostgreSQL rejects a statement with a cast that
\* does not exist, whatever the rows are; otherwise one entry per group,
\* distance_km being the distance of the two corners in degrees / 1000
GetVehicleStatistics(vehicle_ids, time_window_hours, now) ==
    LET groups == StatisticsGroups(vehicle_ids, now - time_window_hours) IN
    IF ~DoubleCastsToGeography THEN QueryError
    ELSE [v \in DOMAIN groups |->
            [point_count |-> groups[v].point_count,
             max_speed |-> groups[v].max_speed,
             first_update |-> groups[v].first_update,
             last_update |-> groups[v].last_update,
             distance_km |->
                StDistance(groups[v].low_corner, groups[v].high_corner) \div 10000]]

(***************************************************************************)
(* OptimizedGPSCache                                                       *)
(***************************************************************************)
\* the coroutines that use the cache: one producer, the background task
\* created by __init__, and the caller of cleanup()
CacheProducers == {"p1"}
CacheActors == CacheProducers \cup {"bg", "cleanup"}

\* stands for the 200 entries "pipe.ltrim(track_key, 0, 199)" keeps
TrackKeep == 2
\* number of pipe.execute() calls that raise in one behaviour
MaxPipeFailures == 1

\* GPSPoint(lat, lng, timestamp, speed, direction); the vehicle is the key of
\* write_buffer.  id as in GPSBatchData.
GPSPoint(t, s, i) ==
    [lat |-> s.latitude, lng |-> s.longitude, timestamp |-> t,
     speed |-> s.speed, direction |-> s.direction, id |-> i]

NoLocation == [lat |-> 0, lng |-> 0, speed |-> 0, dir |-> 0, ts |-> 0]
EmptyBuffer == [v \in Vehicles |-> << >>]

\* spacing of the float32 values around the magnitude m (24-bit significand)
RECURSIVE Float32Ulp(_)
Float32Ulp(m) == IF m < 16777216 THEN 1 ELSE 2 * Float32Ulp(m \div 2)

\* np.array([...], dtype=np.float32) on a whole number: round to nearest, ties
\* to even
Float32(n) ==
    IF -16777216 < n /\ n < 16777216 THEN n    \* 24 bits hold it as it is
    ELSE LET m == IF n < 0 THEN -n ELSE n
             u == Float32Ulp(m)
             q == m \div u
             r == m % u
             up == (2 * r > u) \/ (2 * r = u /\ q % 2 = 1)
             rounded == IF up THEN (q + 1) * u ELSE q * u
         IN  IF n < 0 THEN -rounded ELSE rounded

\* _compress_gps_point: five float32 in the order lat, lng, timestamp, speed,
\* direction
CompressGpsPoint(pt) ==
    << Float32(pt.lat), Float32(pt.lng), Float32(pt.timestamp),
       Float32(pt.speed), Float32(pt.direction) >>

\* location_data of _flush_write_buffer
LocationData(pt) ==
    [lat |-> pt.lat, lng |-> pt.lng, speed |-> pt.speed,
     dir |-> pt.direction, ts |-> pt.timestamp]

\* pushes at the tail of the list
RECURSIVE RPushAll(_, _)
RPushAll(track, pts) ==
    IF pts = << >> THEN track
    ELSE RPushAll(track \o << CompressGpsPoint(Head(pts)) >>, Tail(pts))

\* "for point in gps_points: pipe.lpush(track_key, ...)"
RECURSIVE LPushAll(_, _)
LPushAll(track, pts) ==
    IF pts = << >> THEN track
    ELSE LPushAll(<< CompressGpsPoint(Head(pts)) >> \o track, Tail(pts))

\* a trim that removes nothing
LTrimKeepsAll(track, start, stop) == track

\* LTRIM key start stop, 0 <= start <= stop
LTrim(track, start, stop) ==
    SubSeq(track, start + 1, IF stop + 1 < Len(track) THEN stop + 1 ELSE Len(track))

\* cache_gps_point: "if len(self.write_buffer[vehicle_id]) >= self.batch_size"
CacheBufferFull(points) == Len(points) >= BatchSize

\* _flush_write_buffer: "if not self.write_buffer: return"
BufferIsEmpty(buf) == \A v \in Vehicles : buf[v] = << >>

\* a flush that queues only the vehicles that reached batch_size
PipelineOfFullVehicles(buf) ==
    [v \in Vehicles |-> IF CacheBufferFull(buf[v]) THEN buf[v] ELSE << >>]

\* the commands _flush_write_buffer queues: every vehicle of the buffer
PipelineOf(buf) == buf

\* sum(len(points) for points in self.write_buffer.values())
RECURSIVE TotalPoints(_, _)
TotalPoints(buf, vs) ==
    IF vs = {} THEN 0
    ELSE LET v == CHOOSE x \in vs : TRUE
         IN  Len(buf[v]) + TotalPoints(buf, vs \ {v})

CacheInit ==
    /\ write_buffer = EmptyBuffer
    /\ cachePc = [a \in CacheActors |->
                     IF a = "bg" THEN "sleeping" ELSE "idle"]
    /\ cachePipe = [a \in CacheActors |-> EmptyBuffer]
    /\ cacheResult = [p \in CacheProducers |-> "none"]
    /\ cacheCancelReq = FALSE
    /\ write_count = 0
    /\ redisCurrent = [v \in Vehicles |-> NoLocation]
    /\ redisGeo = [v \in Vehicles |-> << >>]
    /\ redisTrack = [v \in Vehicles |-> << >>]
    /\ pushed = [v \in Vehicles |-> << >>]
    /\ cacheNextId = 1
    /\ cacheBgFailures = 0
    /\ cacheFailures = 0

\* GEOADD answers "ERR invalid longitude,latitude pair" outside longitude
\* -180..180 and latitude -85.05112878..85.05112878
GeoAddAccepts(pt) ==
    /\ -180 <= pt.lng /\ pt.lng <= 180
    /\ -85 <= pt.lat /\ pt.lat <= 85

\* latest_point = gps_points[-1]
LatestPoint(points) == points[Len(points)]

\* every GEOADD of the pipeline is accepted: pipe.execute() raises the first
\* error reply after the server has run all the commands
PipelineAccepted(pipe) ==
    \A v \in Vehicles : pipe[v] # << >> => GeoAddAccepts(LatestPoint(pipe[v]))

\* pipe.execute() applied by the server (MULTI/EXEC): for each vehicle of the
\* pipeline HSET v:<id>, GEOADD geo:vehicles, LPUSH t:<id> per point, LTRIM.
\* A rejected GEOADD leaves the member of the geo set as it was and does not
\* stop the other commands.
ExecutePipeline(pipe) ==
    /\ redisCurrent' = [v \in Vehicles |->
          IF pipe[v] = << >> THEN redisCurrent[v]
          ELSE LocationData(LatestPoint(pipe[v]))]
    /\ redisGeo' = [v \in Vehicles |->
          IF pipe[v] = << >> \/ ~GeoAddAccepts(LatestPoint(pipe[v]))
          THEN redisGeo[v]
          ELSE << LatestPoint(pipe[v]).lng, LatestPoint(pipe[v]).lat >>]
    /\ pushed' = [v \in Vehicles |-> pushed[v] \o pipe[v]]
    /\ redisTrack' = [v \in Vehicles |->
          IF pipe[v] = << >> THEN redisTrack[v]
          ELSE LTrim(LPushAll(redisTrack[v], pipe[v]), 0, TrackKeep - 1)]

\* cache_gps_point(vehicle_id, gps_point): append; at batch_size call
\* _flush_write_buffer, which queues the whole buffer and suspends in
\* pipe.execute().  There is no lock.
CacheGpsPoint(p, v, t, s) ==
    LET points == Append(write_buffer[v], GPSPoint(t, s, cacheNextId))
        buf == [write_buffer EXCEPT ![v] = points]
    IN
    /\ cachePc[p] = "idle"
    /\ cacheNextId <= MaxPoints
    /\ cacheNextId' = cacheNextId + 1
    /\ write_buffer' = buf
    /\ IF CacheBufferFull(points)
       THEN /\ cachePipe' = [cachePipe EXCEPT ![p] = PipelineOf(buf)]
            /\ cachePc' = [cachePc EXCEPT ![p] = "flushing"]
            /\ cacheResult' = [cacheResult EXCEPT ![p] = "none"]
       ELSE /\ cacheResult' = [cacheResult EXCEPT ![p] = "ok"]
            /\ UNCHANGED << cachePipe, cachePc >>
    /\ UNCHANGED << cacheCancelReq, write_count, redisCurrent, redisGeo,
                    redisTrack, pushed, cacheBgFailures, cacheFailures >>

\* _background_flush: the sleep returns and _flush_write_buffer is called
CacheBgTick ==
    /\ cachePc["bg"] = "sleeping"
    /\ ~cacheCancelReq
    /\ ~BufferIsEmpty(write_buffer)
    /\ cachePipe' = [cachePipe EXCEPT !["bg"] = PipelineOf(write_buffer)]
    /\ cachePc' = [cachePc EXCEPT !["bg"] = "flushing"]
    /\ UNCHANGED << write_buffer, cacheResult, cacheCancelReq, write_count,
                    redisCurrent, redisGeo, redisTrack, pushed, cacheNextId,
                    cacheBgFailures, cacheFailures >>

\* cancel the background task; CancelledError is delivered at its await
CacheCancel == cachePc["bg"] \in {"sleeping", "flushing"}

\* a coroutine suspended in pipe.execute() that can resume normally
Piping(a) ==
    /\ cachePc[a] = "flushing"
    /\ a = "bg" => ~cacheCancelReq

\* pipe.execute() returns; then, whatever the buffer holds by now,
\* total_points is counted, the buffer is cleared and the caller goes on:
\* cache_gps_point returns, the loop sleeps again, cleanup cancels the task.
PipeOk(a) ==
    /\ Piping(a)
    /\ PipelineAccepted(cachePipe[a])
    /\ ExecutePipeline(cachePipe[a])
    /\ write_count' = write_count + TotalPoints(write_buffer, Vehicles)
    /\ write_buffer' = EmptyBuffer
    /\ cachePipe' = [cachePipe EXCEPT ![a] = EmptyBuffer]
    /\ cachePc' = [cachePc EXCEPT ![a] =
           IF a = "bg" THEN "sleeping" ELSE IF a = "cleanup" THEN "done" ELSE "idle"]
    /\ cacheResult' = IF a \in CacheProducers
                      THEN [cacheResult EXCEPT ![a] = "ok"] ELSE cacheResult
    /\ cacheCancelReq' = IF a = "cleanup" THEN CacheCancel ELSE cacheCancelReq
    /\ UNCHANGED << cacheNextId, cacheBgFailures, cacheFailures >>

\* pipe.execute() raises; the server may or may not have run the commands.
\* The buffer is not cleared.  The loop logs the error and sleeps again,
\* cache_gps_point and cleanup raise.
PipeFail(a, applied) ==
    /\ Piping(a)
    /\ cacheFailures < MaxPipeFailures
    /\ cacheFailures' = cacheFailures + 1
    /\ IF applied THEN ExecutePipeline(cachePipe[a])
       ELSE UNCHANGED << redisCurrent, redisGeo, redisTrack, pushed >>
    /\ cachePipe' = [cachePipe EXCEPT ![a] = EmptyBuffer]
    /\ cachePc' = [cachePc EXCEPT ![a] =
           IF a = "bg" THEN "sleeping" ELSE IF a = "cleanup" THEN "raised" ELSE "idle"]
    /\ cacheResult' = IF a \in CacheProducers
                      THEN [cacheResult EXCEPT ![a] = "error"] ELSE cacheResult
    /\ cacheBgFailures' = IF a = "bg" THEN cacheBgFailures + 1 ELSE cacheBgFailures
    /\ UNCHANGED << write_buffer, cacheCancelReq, write_count, cacheNextId >>

\* cleanup(): a last _flush_write_buffer, then flush_task.cancel()
Cleanup ==
    /\ cachePc["cleanup"] = "idle"
    /\ IF BufferIsEmpty(write_buffer)
       THEN /\ cachePc' = [cachePc EXCEPT !["cleanup"] = "done"]
            /\ cacheCancelReq' = CacheCancel
            /\ UNCHANGED cachePipe
       ELSE /\ cachePc' = [cachePc EXCEPT !["cleanup"] = "flushing"]
            /\ cachePipe' = [cachePipe EXCEPT !["cleanup"] = PipelineOf(write_buffer)]
            /\ UNCHANGED cacheCancelReq
    /\ UNCHANGED << write_buffer, cacheResult, write_count, redisCurrent,
                    redisGeo, redisTrack, pushed, cacheNextId, cacheBgFailures,
                    cacheFailures >>

\* The task receives CancelledError, which "except Exception" does not catch:
\* the task ends.  A pipeline it was waiting for may have been run by the
\* server; the buffer is not cleared by it.
CacheBgCancelled(applied) ==
    /\ cacheCancelReq
    /\ cacheCancelReq' = FALSE
    /\ IF applied /\ cachePc["bg"] = "flushing"
       THEN ExecutePipeline(cachePipe["bg"])
       ELSE UNCHANGED << redisCurrent, redisGeo, redisTrack, pushed >>
    /\ cachePipe' = [cachePipe EXCEPT !["bg"] = EmptyBuffer]
    /\ cachePc' = [cachePc EXCEPT !["bg"] = "done"]
    /\ UNCHANGED << write_buffer, cacheResult, write_count, cacheNextId,
                    cacheBgFailures, cacheFailures >>

\* pipe.expire(vehicle_key, self.vehicle_ttl): when vehicle_ttl seconds pass
\* with nothing buffered and no pipeline under way, the keys v:<id> are gone.
\* No command of the module sets a time to live on geo:vehicles or removes a
\* member of it.
VehicleKeysExpire ==
    /\ \E v \in Vehicles : redisCurrent[v] # NoLocation
    /\ BufferIsEmpty(write_buffer)
    /\ \A a \in CacheActors : BufferIsEmpty(cachePipe[a])
    /\ redisCurrent' = [v \in Vehicles |-> NoLocation]
    /\ UNCHANGED << write_buffer, cachePc, cachePipe, cacheResult,
                    cacheCancelReq, write_count, redisGeo, redisTrack, pushed,
                    cacheNextId, cacheBgFailures, cacheFailures >>

\* one step of the cache; the batch processor and the service stay as they are
OnlyCache ==
    /\ active = "cache"
    /\ UNCHANGED << dbVars, apiVars, maintVars, taskVars, codecVars, bulkInsert, active >>

CacheNext ==
    \/ \E p \in CacheProducers, i \in CacheInputs :
          active = "cache" /\ CacheGpsPoint(p, i.vehicle_id, i.timestamp, i.sample) /\ OnlyCache
    \/ active = "cache" /\ CacheBgTick /\ OnlyCache
    \/ \E a \in CacheActors : active = "cache" /\ PipeOk(a) /\ OnlyCache
    \/ \E a \in CacheActors, applied \in BOOLEAN : active = "cache" /\ PipeFail(a, applied) /\ OnlyCache
    \/ active = "cache" /\ Cleanup /\ OnlyCache
    \/ \E applied \in BOOLEAN : active = "cache" /\ CacheBgCancelled(applied) /\ OnlyCache
    \/ active = "cache" /\ VehicleKeysExpire /\ OnlyCache

(***************************************************************************)
(* Reads of the cache.  They change only the counters read_count,          *)
(* cache_hits and cache_misses, which are left out; each is one Redis      *)
(* command, so a read is a function of the state it is made in.            *)
(*                                                                         *)
(* With a cluster_manager the reads use cluster_manager.get_client(id),    *)
(* the client at index hash(id) % client_count.  self.redis is             *)
(* redis_clients[0] (create_optimized_cache), and it is the only client    *)
(* _flush_write_buffer writes to: "client" is computed there and not used. *)
(***************************************************************************)
\* the values PYTHONHASHSEED takes in two processes; str hashes are salted
\* with it
HashSeeds == {"seedA", "seedB"}
ClientCounts == {2, 3}

\* hash(key) of a str in a process with the given seed
StrHash(seed, key) ==
    CASE seed = "seedA" /\ key = "v1" -> 6
      [] seed = "seedA" /\ key = "v2" -> 7
      [] seed = "seedB" /\ key = "v1" -> 5
      [] seed = "seedB" /\ key = "v2" -> 12

\* RedisClusterManager._get_shard_index
GetShardIndex(seed, key, client_count) == StrHash(seed, key) % client_count

\* how a cache object was constructed: without a cluster_manager, or with one
\* in a process with some hash seed
NoCluster == [cluster |-> FALSE, client_count |-> 1, seed |-> "none"]
CacheConfigs ==
    {NoCluster} \cup
    { [cluster |-> TRUE, client_count |-> k, seed |-> sd] :
         k \in ClientCounts, sd \in HashSeeds }

\* index in redis_clients of the client a read of vehicle_id uses
\* ("cluster_manager.get_client(vehicle_id) if self.cluster_manager else
\* self.redis"); self.redis has index 0
ReadClient(cfg, vehicle_id) ==
    IF cfg.cluster THEN GetShardIndex(cfg.seed, vehicle_id, cfg.client_count)
    ELSE 0

\* index of the client the pipeline of _flush_write_buffer is sent to
WriteClient(cfg, vehicle_id) == 0

\* the hash v:<id> and the list t:<id> on the server behind a client
HashOn(client, vehicle_id) ==
    IF client = 0 THEN redisCurrent[vehicle_id] ELSE NoLocation
ListOn(client, vehicle_id) ==
    IF client = 0 THEN redisTrack[vehicle_id] ELSE << >>

NotFound == [vehicle_id |-> "none", latitude |-> 0, longitude |-> 0,
             speed |-> 0, direction |-> 0, timestamp |-> 0]

\* get_vehicle_location: HGETALL v:<id>; the fields were written with HSET
\* as the repr of the floats, which float() reads back exactly
GetVehicleLocation(cfg, vehicle_id) ==
    LET data == HashOn(ReadClient(cfg, vehicle_id), vehicle_id) IN
    IF data # NoLocation
    THEN [vehicle_id |-> vehicle_id, latitude |-> data.lat,
          longitude |-> data.lng, speed |-> data.speed,
          direction |-> data.dir, timestamp |-> data.ts]
    ELSE NotFound

\* LRANGE key start stop, 0 <= start; a negative stop counts from the end
LRange(list, start, stop) ==
    LET last == IF stop < 0 THEN Len(list) + stop
                ELSE IF stop < Len(list) THEN stop ELSE Len(list) - 1
    IN  SubSeq(list, start + 1, last + 1)

\* _decompress_gps_point: the five float32 widened to float
DecompressGpsPoint(data) ==
    [lat |-> data[1], lng |-> data[2], timestamp |-> data[3],
     speed |-> data[4], direction |-> data[5]]

\* get_vehicle_track: LRANGE t:<id> 0 limit-1, each entry decompressed
GetVehicleTrack(cfg, vehicle_id, limit) ==
    LET track_data == LRange(ListOn(ReadClient(cfg, vehicle_id), vehicle_id),
                             0, limit - 1)
    IN  [i \in 1..Len(track_data) |-> DecompressGpsPoint(track_data[i])]

\* get_nearby_vehicles: GEORADIUS geo:vehicles lng lat radius km WITHDIST
\* ASC on self.redis, each item as (member, distance).  Members at the same
\* distance come in an order Redis does not define: the possible results.
GetNearbyVehicles(lat, lng, radius_km) ==
    LET members == { v \in Vehicles :
                        /\ redisGeo[v] # << >>
                        /\ HaversineKm(<< lng, lat >>, redisGeo[v]) <= radius_km }
        item(v) == << v, HaversineKm(<< lng, lat >>, redisGeo[v]) >>
    IN  { [i \in 1..Len(s) |-> item(s[i])] : s \in
             { o \in Orders(members) :
                  \A i \in 1..(Len(o) - 1) : item(o[i])[2] <= item(o[i + 1])[2] } }

(***************************************************************************)
(* GPSService.record_location, called by POST /locations (api/sse.py) and   *)
(* by process_gps_batch.  RecordLocationRequest declares latitude,         *)
(* longitude and speed as plain floats, and record_location copies them    *)
(* into the row.                                                           *)
(***************************************************************************)
\* columns latitude DECIMAL(10, 8), longitude DECIMAL(11, 8), speed
\* DECIMAL(5, 2): a value with too many integer digits makes the INSERT fail
FitsColumns(s) ==
    /\ -100 < s.latitude /\ s.latitude < 100
    /\ -1000 < s.longitude /\ s.longitude < 1000
    /\ -1000 < s.speed /\ s.speed < 1000

\* GPSLocation(...): "speed = Decimal(str(location.speed)) if location.speed
\* else None": a speed of 0 is stored as NULL
GPSLocation(v, t, s, i) ==
    [id |-> i, vehicle_id |-> v, gps_time |-> t, latitude |-> s.latitude,
     longitude |-> s.longitude, speed |-> s.speed, speed_is_null |-> (s.speed = 0)]

NoRow == [id |-> 0, vehicle_id |-> "none", gps_time |-> 0, latitude |-> 0,
          longitude |-> 0, speed |-> 0, speed_is_null |-> TRUE]

ApiInit ==
    /\ gps_locations = {}
    /\ vehicleCoords = [v \in Vehicles |-> << >>]
    /\ apiPc = "idle"
    /\ apiRow = NoRow
    /\ apiResult = "none"
    /\ apiNextId = 1

\* record_location: session.add, commit and refresh succeed; the call goes on
\* to _update_vehicle_location because vehicle_id is given
RecordLocationCommitted(v, t, s) ==
    /\ apiPc = "idle"
    /\ apiNextId <= MaxPoints
    /\ FitsColumns(s)
    /\ gps_locations' = gps_locations \cup {GPSLocation(v, t, s, apiNextId)}
    /\ apiRow' = GPSLocation(v, t, s, apiNextId)
    /\ apiNextId' = apiNextId + 1
    /\ apiPc' = "updating"
    /\ apiResult' = "none"
    /\ UNCHANGED vehicleCoords

\* record_location: the commit raises; "await session.rollback(); raise
\* GPSServiceError"
RecordLocationFailed(v, t, s) ==
    /\ apiPc = "idle"
    /\ apiNextId <= MaxPoints
    /\ apiNextId' = apiNextId + 1
    /\ apiResult' = "error"
    /\ UNCHANGED << gps_locations, vehicleCoords, apiPc, apiRow >>

\* record_location: the commit succeeds and "await session.refresh(
\* gps_location)", the SELECT that follows it inside the same try, raises;
\* "await session.rollback(); raise GPSServiceError" with the row committed
RecordLocationRefreshFailed(v, t, s) ==
    /\ apiPc = "idle"
    /\ apiNextId <= MaxPoints
    /\ FitsColumns(s)
    /\ gps_locations' = gps_locations \cup {GPSLocation(v, t, s, apiNextId)}
    /\ apiNextId' = apiNextId + 1
    /\ apiResult' = "error"
    /\ UNCHANGED << vehicleCoords, apiPc, apiRow >>

\* _update_vehicle_location: UPDATE vehicles SET current_coordinates =
\* [longitude, latitude]; an exception is printed and swallowed.  Then
\* record_location returns the row.
UpdateVehicleLocation(ok) ==
    /\ apiPc = "updating"
    /\ vehicleCoords' = IF ok
         THEN [vehicleCoords EXCEPT ![apiRow.vehicle_id] =
                  << apiRow.longitude, apiRow.latitude >>]
         ELSE vehicleCoords
    /\ apiPc' = "idle"
    /\ apiRow' = NoRow
    /\ apiResult' = "ok"
    /\ UNCHANGED << gps_locations, apiNextId >>

\* one step of the service; the batch processor and the cache stay as they are
OnlyService ==
    /\ active = "service"
    /\ UNCHANGED << dbVars, cacheVars, maintVars, taskVars, codecVars, bulkInsert, active >>

ApiNext ==
    \/ \E i \in Inputs :
          active = "service" /\ RecordLocationCommitted(i.vehicle_id, i.timestamp, i.sample) /\ OnlyService
    \/ \E i \in Inputs :
          active = "service" /\ RecordLocationFailed(i.vehicle_id, i.timestamp, i.sample) /\ OnlyService
    \/ \E i \in Inputs :
          active = "service" /\ RecordLocationRefreshFailed(i.vehicle_id, i.timestamp, i.sample) /\ OnlyService
    \/ \E ok \in BOOLEAN : active = "service" /\ UpdateVehicleLocation(ok) /\ OnlyService

\* get_current_location(vehicle_id): the rows of the vehicle with is_valid =
\* "1" (every row record_location writes), "ORDER BY gps_time DESC LIMIT 1".
\* The answers the statement can give: among rows of equal gps_time the
\* database returns any.
GetCurrentLocation(vehicle_id) ==
    LET rows == { r \in gps_locations : r.vehicle_id = vehicle_id } IN
    IF rows = {} THEN {NoRow}
    ELSE { r \in rows : \A q \in rows : q.gps_time <= r.gps_time }

\* get_tracking_history(filters, limit) with vehicle_id, time_from and time_to
\* set: "WHERE is_valid = '1' AND vehicle_id = ... AND gps_time >= time_from
\* AND gps_time <= time_to ORDER BY gps_time LIMIT limit".  The answers the
\* statement can give: rows of equal gps_time come in any order.
GetTrackingHistory(vehicle_id, time_from, time_to, limit) ==
    LET rows == { r \in gps_locations : /\ r.vehicle_id = vehicle_id
                                        /\ r.gps_time >= time_from
                                        /\ r.gps_time <= time_to }
        n == Cardinality(rows)
        ordered == { f \in [1..n -> rows] :
                       /\ \A i, j \in 1..n : i # j => f[i] # f[j]
                       /\ \A i, j \in 1..n : i < j => f[i].gps_time <= f[j].gps_time }
    IN  { SubSeq(f, 1, IF limit < n THEN limit ELSE n) : f \in ordered }

(***************************************************************************)
(* PostgreSQLOptimizer.create_daily_partitions and cleanup_old_partitions. *)
(* Each run is one transaction ("async with self.engine.begin()") whose    *)
(* statements are awaited one by one; an exception of a statement is       *)
(* caught and logged inside the loop.  In PostgreSQL a failed statement    *)
(* aborts the transaction: every later statement of it fails as well, and  *)
(* the COMMIT at the end of the block rolls back.  DatabaseManager runs    *)
(* the two functions one after the other, never together.                  *)
(***************************************************************************)
\* days that pass in one behaviour; day 1 is the day of initialize()
MaxDay == 3
\* statements that fail for a reason of their own in one behaviour
MaxStmtFailures == 1
DaysAheadArgs == {0, 1}
RetentionArgs == {1, 2}

\* the calendar date of a day number: day 1 is 2024-12-29, so that the days
\* of a behaviour lie on both sides of a change of month and year
DateOfDay(n) ==
    IF n <= 3 THEN [year |-> 2024, month |-> 12, day |-> 28 + n]
    ELSE [year |-> 2025, month |-> 1, day |-> n - 3]

\* the character code of a decimal digit
DigitChar(d) == 48 + d

\* date.strftime('%Y%m%d') as character codes
StrfYmd(n) ==
    LET d == DateOfDay(n) IN
    << DigitChar(d.year \div 1000), DigitChar((d.year \div 100) % 10),
       DigitChar((d.year \div 10) % 10), DigitChar(d.year % 10),
       DigitChar(d.month \div 10), DigitChar(d.month % 10),
       DigitChar(d.day \div 10), DigitChar(d.day % 10) >>

\* A table name: the text "gps_locations" or another stem, followed by a
\* tail of character codes.  f"gps_locations_{strftime('%Y%m%d')}"
Underscore == 95
PartitionName(n) == [stem |-> "gps_locations", tail |-> << Underscore >> \o StrfYmd(n)]

\* gps_locations_partitioned, the parent table of create_optimized_tables
ParentTable ==
    [stem |-> "gps_locations",
     tail |-> << Underscore, 112, 97, 114, 116, 105, 116, 105, 111, 110, 101, 100 >>]

\* the tables of the application's models that the maintenance never names
OtherTables ==
    { [stem |-> "gps_locations", tail |-> << >>],
      [stem |-> "vehicles", tail |-> << >>] }

\* tablename LIKE 'gps_locations_%': "_" stands for any one character and "%"
\* for any text
LikeGpsLocations(name) == name.stem = "gps_locations" /\ Len(name.tail) >= 1

\* a < b for two texts, character by character
RECURSIVE TextLess(_, _)
TextLess(a, b) ==
    IF b = << >> THEN FALSE
    ELSE IF a = << >> THEN TRUE
    ELSE IF Head(a) # Head(b) THEN Head(a) < Head(b)
    ELSE TextLess(Tail(a), Tail(b))

\* a drop that also takes the partition of the cutoff date
NameBeforeOrAt(name, cutoff) ==
    ~TextLess(<< Underscore >> \o StrfYmd(cutoff), name.tail)

\* tablename < 'gps_locations_{cutoff_date.strftime('%Y%m%d')}', for a name
\* that begins with gps_locations
NameBefore(name, cutoff) ==
    TextLess(name.tail, << Underscore >> \o StrfYmd(cutoff))

\* "ORDER BY tablename"
RECURSIVE OrderByName(_)
OrderByName(names) ==
    IF names = {} THEN << >>
    ELSE LET first == CHOOSE n \in names :
                         \A m \in names : m = n \/ TextLess(n.tail, m.tail)
         IN  << first >> \o OrderByName(names \ {first})

\* a cutoff that counts today as one of the retained days
CutoffDateCountingToday(day, retention_days) == day - retention_days + 1

\* "cutoff_date = datetime.now().date() - timedelta(days=retention_days)"
CutoffDate(day, retention_days) == day - retention_days

\* find_partitions_sql of cleanup_old_partitions
FindPartitions(catalog, cutoff) ==
    OrderByName({ n \in catalog : LikeGpsLocations(n) /\ NameBefore(n, cutoff) })

\* a run that creates the days up to days_ahead but not yesterday
FirstIndexToday == -1 + 1

\* "for i in range(-1, days_ahead + 1)": the first value of i
FirstIndex == -1

MaintInit ==
    /\ today = 1
    /\ tables = {ParentTable} \cup OtherTables
    /\ tableRows = {}
    /\ maintPc = "idle"
    /\ base_date = 0
    /\ days_ahead = 0
    /\ loopIndex = 0
    /\ partitions_to_drop = << >>
    /\ txTables = {}
    /\ txAborted = FALSE
    /\ stmtFailures = 0
    /\ failedNames = {}
    /\ cutoff_date = 0
    /\ ownFailures = {}
    /\ droppedTables = {}
    /\ lastRun = "none"

\* midnight passes
DayPasses ==
    /\ today < MaxDay
    /\ today' = today + 1
    /\ UNCHANGED << tables, tableRows, maintPc, base_date, days_ahead, loopIndex,
                    partitions_to_drop, txTables, txAborted, stmtFailures,
                    failedNames,
                    cutoff_date, ownFailures, droppedTables, lastRun >>

\* a committed flush has stored a row of today in the daily partition it
\* belongs to; a partition the open transaction has dropped is locked
InsertRow(name) ==
    /\ name = PartitionName(today)
    /\ name \in tables
    /\ maintPc = "dropping" => name \in txTables
    /\ [table |-> name, id |-> today] \notin tableRows
    /\ tableRows' = tableRows \cup {[table |-> name, id |-> today]}
    /\ UNCHANGED << today, tables, maintPc, base_date, days_ahead, loopIndex,
                    partitions_to_drop, txTables, txAborted, stmtFailures,
                    failedNames,
                    cutoff_date, ownFailures, droppedTables, lastRun >>

\* create_daily_partitions(days_ahead): base_date = datetime.now().date(),
\* the transaction begins
CreateDailyPartitions(ahead) ==
    /\ maintPc = "idle"
    /\ maintPc' = "creating"
    /\ base_date' = today
    /\ days_ahead' = ahead
    /\ loopIndex' = FirstIndex
    /\ txTables' = tables
    /\ txAborted' = FALSE
    /\ failedNames' = {}
    /\ ownFailures' = {}
    /\ UNCHANGED << today, tables, tableRows, partitions_to_drop, stmtFailures,
                    cutoff_date, droppedTables, lastRun >>

\* "CREATE TABLE IF NOT EXISTS {partition_name} PARTITION OF ..." succeeds
CreateStatementOk ==
    /\ maintPc = "creating"
    /\ loopIndex <= days_ahead
    /\ ~txAborted
    /\ txTables' = txTables \cup {PartitionName(base_date + loopIndex)}
    /\ loopIndex' = loopIndex + 1
    /\ UNCHANGED << today, tables, tableRows, maintPc, base_date, days_ahead,
                    partitions_to_drop, txAborted, stmtFailures, failedNames,
                    cutoff_date, ownFailures, droppedTables, lastRun >>

\* the statement raises, for a reason of its own or because the transaction
\* is aborted; "except Exception: logger.warning(...)" and the loop goes on
CreateStatementFails ==
    /\ maintPc = "creating"
    /\ loopIndex <= days_ahead
    /\ txAborted \/ stmtFailures < MaxStmtFailures
    /\ stmtFailures' = IF txAborted THEN stmtFailures ELSE stmtFailures + 1
    /\ txAborted' = TRUE
    /\ failedNames' = failedNames \cup {PartitionName(base_date + loopIndex)}
    /\ loopIndex' = loopIndex + 1
    /\ ownFailures' = IF txAborted THEN ownFailures
                      ELSE ownFailures \cup {PartitionName(base_date + loopIndex)}
    /\ UNCHANGED << today, tables, tableRows, maintPc, base_date, days_ahead,
                    partitions_to_drop, txTables,
                    cutoff_date, droppedTables, lastRun >>

\* what the end of "async with self.engine.begin()" leaves in the catalog:
\* COMMIT of an aborted transaction rolls it back
TablesAfterCommit(committed, staged, aborted) ==
    IF aborted THEN committed ELSE staged

\* the loop is over: the block ends and commits
CreateDailyPartitionsEnd ==
    /\ maintPc = "creating"
    /\ loopIndex > days_ahead
    /\ tables' = TablesAfterCommit(tables, txTables, txAborted)
    /\ maintPc' = "idle"
    /\ txTables' = {}
    /\ txAborted' = FALSE
    /\ base_date' = 0
    /\ days_ahead' = 0
    /\ loopIndex' = 0
    /\ failedNames' = {}
    /\ ownFailures' = {}
    /\ lastRun' = IF failedNames # {} THEN "create, failed"
                  ELSE IF tables' = tables THEN "create, nothing new"
                  ELSE "create"
    /\ UNCHANGED << today, tableRows, partitions_to_drop, stmtFailures,
                    cutoff_date, droppedTables >>

\* cleanup_old_partitions(retention_days): cutoff_date, the transaction
\* begins and the SELECT on pg_tables is fetched
CleanupOldPartitions(retention_days) ==
    /\ maintPc = "idle"
    /\ maintPc' = "dropping"
    /\ partitions_to_drop' = FindPartitions(tables, CutoffDate(today, retention_days))
    /\ txTables' = tables
    /\ txAborted' = FALSE
    /\ failedNames' = {}
    /\ cutoff_date' = CutoffDate(today, retention_days)
    /\ ownFailures' = {}
    /\ UNCHANGED << today, tables, tableRows, base_date, days_ahead, loopIndex,
                    stmtFailures, droppedTables, lastRun >>

\* "DROP TABLE IF EXISTS {table_name}" succeeds
DropStatementOk ==
    /\ maintPc = "dropping"
    /\ partitions_to_drop # << >>
    /\ ~txAborted
    /\ txTables' = txTables \ {Head(partitions_to_drop)}
    /\ partitions_to_drop' = Tail(partitions_to_drop)
    /\ UNCHANGED << today, tables, tableRows, maintPc, base_date, days_ahead,
                    loopIndex, txAborted, stmtFailures, failedNames,
                    cutoff_date, ownFailures, droppedTables, lastRun >>

\* the DROP raises; "except Exception: logger.error(...)" and the loop goes on
DropStatementFails ==
    /\ maintPc = "dropping"
    /\ partitions_to_drop # << >>
    /\ txAborted \/ stmtFailures < MaxStmtFailures
    /\ stmtFailures' = IF txAborted THEN stmtFailures ELSE stmtFailures + 1
    /\ txAborted' = TRUE
    /\ failedNames' = failedNames \cup {Head(partitions_to_drop)}
    /\ partitions_to_drop' = Tail(partitions_to_drop)
    /\ ownFailures' = IF txAborted THEN ownFailures
                      ELSE ownFailures \cup {Head(partitions_to_drop)}
    /\ UNCHANGED << today, tables, tableRows, maintPc, base_date, days_ahead,
                    loopIndex, txTables,
                    cutoff_date, droppedTables, lastRun >>

\* the loop is over: the block ends and commits; the rows of a dropped
\* partition go with it
CleanupOldPartitionsEnd ==
    /\ maintPc = "dropping"
    /\ partitions_to_drop = << >>
    /\ tables' = TablesAfterCommit(tables, txTables, txAborted)
    /\ tableRows' = { r \in tableRows : r.table \in tables' }
    /\ maintPc' = "idle"
    /\ txTables' = {}
    /\ txAborted' = FALSE
    /\ failedNames' = {}
    /\ ownFailures' = {}
    /\ droppedTables' = tables \ tables'
    /\ lastRun' = "cleanup"
    /\ UNCHANGED << today, base_date, days_ahead, loopIndex, partitions_to_drop,
                    stmtFailures, cutoff_date >>

\* one step of the maintenance; the other objects stay as they are
OnlyMaintenance ==
    /\ active = "maintenance"
    /\ UNCHANGED << dbVars, cacheVars, apiVars, taskVars, codecVars, bulkInsert, active >>

MaintNext ==
    \/ active = "maintenance" /\ DayPasses /\ OnlyMaintenance
    \/ \E name \in tables : active = "maintenance" /\ InsertRow(name) /\ OnlyMaintenance
    \/ \E ahead \in DaysAheadArgs : active = "maintenance" /\ CreateDailyPartitions(ahead) /\ OnlyMaintenance
    \/ active = "maintenance" /\ CreateStatementOk /\ OnlyMaintenance
    \/ active = "maintenance" /\ CreateStatementFails /\ OnlyMaintenance
    \/ active = "maintenance" /\ CreateDailyPartitionsEnd /\ OnlyMaintenance
    \/ \E r \in RetentionArgs : active = "maintenance" /\ CleanupOldPartitions(r) /\ OnlyMaintenance
    \/ active = "maintenance" /\ DropStatementOk /\ OnlyMaintenance
    \/ active = "maintenance" /\ DropStatementFails /\ OnlyMaintenance
    \/ active = "maintenance" /\ CleanupOldPartitionsEnd /\ OnlyMaintenance

(***************************************************************************)
(* GPSService.analyze_route over the rows record_location has stored for   *)
(* one shipment, carried by the vehicle v1.  gps_time is in minutes, the   *)
(* speeds are whole km/h.                                                  *)
(***************************************************************************)
\* the positions recorded for the shipment: a departure at speed, a halt
\* reported with speed 0 or 3, a second slow report, a fast report
RouteInputs ==
    { [timestamp |-> 0,  sample |-> Sample(10, 20, 60, 0, 5)],
      [timestamp |-> 10, sample |-> Sample(11, 21, 0, 0, 5)],
      [timestamp |-> 10, sample |-> Sample(11, 21, 3, 0, 5)],
      [timestamp |-> 13, sample |-> Sample(11, 21, 3, 0, 5)],
      [timestamp |-> 11, sample |-> Sample(12, 22, 60, 0, 5)] }

\* sum of the values of a function over a set of its arguments
RECURSIVE SumFn(_, _)
SumFn(f, S) ==
    IF S = {} THEN 0
    ELSE LET x == CHOOSE y \in S : TRUE IN f[x] + SumFn(f, S \ {x})

\* round(n / d, 2) in hundredths, for n >= 0 and d > 0
RoundHundredths(n, d) == (200 * n + d) \div (2 * d)

\* "if curr_point.speed:" a NULL and a zero Decimal are both false
SpeedIsSet(point) == ~point.speed_is_null /\ point.speed # 0

\* (curr_point.gps_time - prev_point.gps_time).total_seconds() / 60
TimeDiff(gps_points, i) == gps_points[i].gps_time - gps_points[i - 1].gps_time

\* the iterations of the loop that add a stop: "if curr_point.speed", "if
\* speed < 5", "if time_diff > 2"
StopSteps(gps_points) ==
    { i \in 2..Len(gps_points) :
         /\ SpeedIsSet(gps_points[i])
         /\ gps_points[i].speed < 5
         /\ TimeDiff(gps_points, i) > 2 }

\* the iterations of the loop that append to speeds
SpeedSteps(gps_points) ==
    { i \in 2..Len(gps_points) : SpeedIsSet(gps_points[i]) }

\* max_speed = max(max_speed, speed) from 0 over the iterations
MaxSpeed(gps_points, steps) ==
    IF \A i \in steps : gps_points[i].speed <= 0 THEN 0
    ELSE LET i == CHOOSE k \in steps :
                     \A j \in steps : gps_points[j].speed <= gps_points[k].speed
         IN  gps_points[i].speed

\* the metrics of the loop over range(1, len(gps_points)) and the lines
\* after it; total_distance in km, average_speed in hundredths of a km/h
RouteMetrics(gps_points, steps) ==
    LET distance == [i \in 2..Len(gps_points) |->
            HaversineKm(<< gps_points[i - 1].longitude, gps_points[i - 1].latitude >>,
                        << gps_points[i].longitude, gps_points[i].latitude >>)]
        speed == [i \in 1..Len(gps_points) |-> gps_points[i].speed]
        time_diff == [i \in 2..Len(gps_points) |-> TimeDiff(gps_points, i)]
    IN  [total_distance |-> SumFn(distance, 2..Len(gps_points)),
         total_duration |-> gps_points[Len(gps_points)].gps_time
                               - gps_points[1].gps_time,
         average_speed |-> IF steps = {} THEN 0
                           ELSE RoundHundredths(SumFn(speed, steps),
                                                Cardinality(steps)),
         max_speed |-> MaxSpeed(gps_points, steps),
         stop_count |-> Cardinality(StopSteps(gps_points)),
         stop_duration |-> SumFn(time_diff, StopSteps(gps_points))]

\* RouteAnalysis(total_distance=0, ..., stop_duration=0)
ZeroRouteAnalysis ==
    [total_distance |-> 0, total_duration |-> 0, average_speed |-> 0,
     max_speed |-> 0, stop_count |-> 0, stop_duration |-> 0]

\* takes the reported speed of every point and has no early return
AnalyzeEveryPoint(gps_points) ==
    IF gps_points = << >> THEN ZeroRouteAnalysis
    ELSE RouteMetrics(gps_points,
                      { i \in 1..Len(gps_points) : SpeedIsSet(gps_points[i]) })

\* analyze_route on the points get_tracking_history has returned
AnalyzeRoute(gps_points) ==
    IF Len(gps_points) < 2 THEN ZeroRouteAnalysis
    ELSE RouteMetrics(gps_points, SpeedSteps(gps_points))

\* the points analyze_route(shipment) can get from get_tracking_history: no
\* time_from, no time_to, limit 1000
RouteTracks == GetTrackingHistory("v1", 0, 1000, 1000)

\* one step of the service recording the shipment; the other objects stay as
\* they are
OnlyRoute ==
    /\ active = "route"
    /\ UNCHANGED << dbVars, cacheVars, maintVars, taskVars, codecVars, bulkInsert, active >>

RouteNext ==
    \/ \E i \in RouteInputs :
          active = "route" /\ RecordLocationCommitted("v1", i.timestamp, i.sample) /\ OnlyRoute
    \/ \E ok \in BOOLEAN : active = "route" /\ UpdateVehicleLocation(ok) /\ OnlyRoute

(***************************************************************************)
(* tasks.gps_tasks.process_gps_batch: "async with get_session() as         *)
(* session", then one record_location per entry of gps_data_list inside a  *)
(* try/except that counts processed_count and error_count.  get_session is *)
(* core.database.get_db, an async generator function without               *)
(* @asynccontextmanager: the object it returns has no __aenter__, so the    *)
(* "async with" raises TypeError before the loop, in every execution.      *)
(***************************************************************************)
\* self.retry(countdown=60, max_retries=3, exc=e)
MaxRetries == 3

\* the lists the task is called with
TaskLists ==
    { << i >> : i \in Inputs } \cup { << i, j >> : i, j \in Inputs }

NoReport == [processed_count |-> -1, error_count |-> -1, total_count |-> -1]

TaskInit ==
    /\ taskPc = "idle"
    /\ taskList = << >>
    /\ taskRetries = 0
    /\ taskReport = NoReport

\* first execution: the "async with" raises, "except Exception as e:
\* self.retry(...)" asks for a retry
ProcessGpsBatch(gps_data_list) ==
    /\ taskPc = "idle"
    /\ taskPc' = "retrying"
    /\ taskList' = gps_data_list
    /\ taskRetries' = 0
    /\ UNCHANGED taskReport

\* a retry executes the task again, which raises at the same place
TaskRetry ==
    /\ taskPc = "retrying"
    /\ taskRetries < MaxRetries
    /\ taskRetries' = taskRetries + 1
    /\ UNCHANGED << taskPc, taskList, taskReport >>

\* after max_retries retries self.retry raises exc: the task has failed
TaskFails ==
    /\ taskPc = "retrying"
    /\ taskRetries = MaxRetries
    /\ taskPc' = "failed"
    /\ UNCHANGED << taskList, taskRetries, taskReport >>

\* one step of the task; it never reaches record_location
OnlyTask ==
    /\ active = "task"
    /\ UNCHANGED << dbVars, cacheVars, apiVars, maintVars, codecVars, bulkInsert, active >>

TaskNext ==
    \/ \E l \in TaskLists : active = "task" /\ ProcessGpsBatch(l) /\ OnlyTask
    \/ active = "task" /\ TaskRetry /\ OnlyTask
    \/ active = "task" /\ TaskFails /\ OnlyTask

(***************************************************************************)
(* _compress_gps_point and _decompress_gps_point as functions of bytes.    *)
(* A block of bytes is the float32 values its whole groups of 4 bytes      *)
(* hold, and the number of bytes left over.                                *)
(***************************************************************************)
NoGPSPoint == [lat |-> 0, lng |-> 0, timestamp |-> 0, speed |-> 0, direction |-> 0]
NoBlock == [floats |-> << >>, rest |-> 0]
Pending == [raised |-> "pending", point |-> NoGPSPoint]

\* the points compressed: a small timestamp, and time.time() of two
\* consecutive seconds of November 2023
CodecPoints ==
    { [lat |-> 10, lng |-> 20, timestamp |-> 1, speed |-> 5, direction |-> 0],
      [lat |-> 11, lng |-> 21, timestamp |-> 1700000000, speed |-> 6, direction |-> 90],
      [lat |-> 11, lng |-> 21, timestamp |-> 1700000001, speed |-> 6, direction |-> 90] }

\* blocks of 16 to 26 bytes found in a list
ForeignBlocks ==
    { [floats |-> [i \in 1..n |-> 1], rest |-> r] : n \in 4..6, r \in {0, 2} }

\* len(data)
ByteLength(data) == 4 * Len(data.floats) + data.rest

\* data.tobytes()
ToBytes(arr) == [floats |-> arr, rest |-> 0]

\* _decompress_gps_point(data): np.frombuffer(data, dtype=np.float32) raises
\* ValueError when the size is no multiple of 4; arr[4] raises IndexError
\* when there are fewer than 5 values; values after the fifth are not read
DecompressBytes(data) ==
    IF data.rest # 0 THEN [raised |-> "ValueError", point |-> NoGPSPoint]
    ELSE IF Len(data.floats) < 5 THEN [raised |-> "IndexError", point |-> NoGPSPoint]
    ELSE [raised |-> "no", point |-> DecompressGpsPoint(data.floats)]

CodecInit ==
    /\ codecPoint = NoGPSPoint
    /\ codecBlock = NoBlock
    /\ codecResult = Pending

\* _compress_gps_point(point)
Compress(point) ==
    /\ codecPoint' = point
    /\ codecBlock' = ToBytes(CompressGpsPoint(point))
    /\ codecResult' = Pending

\* an entry of a list t:<id> that another writer has put there
ReadForeignBlock(data) ==
    /\ codecPoint' = NoGPSPoint
    /\ codecBlock' = data
    /\ codecResult' = Pending

\* _decompress_gps_point(data) on the block at hand
Decompress ==
    /\ codecBlock # NoBlock
    /\ codecResult = Pending
    /\ codecResult' = DecompressBytes(codecBlock)
    /\ UNCHANGED << codecPoint, codecBlock >>

OnlyCodec ==
    /\ active = "codec"
    /\ UNCHANGED << dbVars, cacheVars, apiVars, maintVars, taskVars, bulkInsert,
                    active >>

CodecNext ==
    \/ \E point \in CodecPoints : active = "codec" /\ Compress(point) /\ OnlyCodec
    \/ \E data \in ForeignBlocks : active = "codec" /\ ReadForeignBlock(data) /\ OnlyCodec
    \/ active = "codec" /\ Decompress /\ OnlyCodec

(***************************************************************************)
(* _execute_batch_insert against the daily partitions.  The timestamp of a *)
(* point is the day it falls on.  gps_locations_partitioned is created     *)
(* with PARTITION BY RANGE (timestamp) and no default partition: a row     *)
(* whose timestamp is in the range of no partition is rejected ("no        *)
(* partition of relation found for row"), which aborts the transaction of  *)
(* the executemany.                                                        *)
(***************************************************************************)
NoBulkInsert == [batch_data |-> << >>, raised |-> "none"]

\* the batches a flush on a given day may carry: a point of the day, with a
\* late point, with a point of the past first, with a point beyond the
\* window, with a point of yesterday
BatchesOn(day) ==
    { << day >>, << day, day - 2 >>, << day - 2, day >>, << day, day + 2 >>,
      << day - 1, day >> }

\* the row a point of the day n becomes, in the partition it is routed to
RowOfDay(n) == [table |-> PartitionName(n), id |-> n]

\* a table with a default partition, which takes every row
RejectsNoRow(catalog, n) == FALSE

\* the INSERT of a row of the day n finds no partition for it
RejectsRow(catalog, n) == PartitionName(n) \notin catalog

\* "await session.execute(stmt, batch_data)": the rows in list order; the
\* index of the first row rejected, 0 if none
RECURSIVE FirstRejected(_, _, _)
FirstRejected(catalog, batch_data, i) ==
    IF i > Len(batch_data) THEN 0
    ELSE IF RejectsRow(catalog, batch_data[i]) THEN i
    ELSE FirstRejected(catalog, batch_data, i + 1)

\* the rows of the first k points
StagedRows(batch_data, k) == { RowOfDay(batch_data[i]) : i \in 1..k }

\* _execute_batch_insert(batch_data): execute and commit, or
\* "except Exception: await session.rollback(); raise e", which leaves the
\* table without any row of the batch
ExecuteBatchInsert(catalog, store, batch_data) ==
    LET k == FirstRejected(catalog, batch_data, 1) IN
    IF k = 0
    THEN [raised |-> "no", rows |-> store \cup StagedRows(batch_data, Len(batch_data))]
    ELSE [raised |-> "error", rows |-> store]

\* _flush_batch of a batch: the rows reach the partitions or the call raises
FlushBatch(batch_data) ==
    LET done == ExecuteBatchInsert(tables, tableRows, batch_data) IN
    /\ maintPc = "idle"
    /\ bulkInsert' = [batch_data |-> batch_data, raised |-> done.raised]
    /\ tableRows' = done.rows
    /\ UNCHANGED << today, tables, maintPc, base_date, days_ahead, loopIndex,
                    partitions_to_drop, txTables, txAborted, stmtFailures,
                    failedNames, cutoff_date, ownFailures, droppedTables,
                    lastRun >>

\* one step of the flushes into the partitions that create_daily_partitions
\* has made; the other objects stay as they are
OnlyStore ==
    /\ active = "store"
    /\ UNCHANGED << dbVars, cacheVars, apiVars, taskVars, codecVars, active >>

StoreNext ==
    \/ active = "store" /\ DayPasses /\ UNCHANGED bulkInsert /\ OnlyStore
    \/ \E ahead \in DaysAheadArgs :
          active = "store" /\ CreateDailyPartitions(ahead) /\ UNCHANGED bulkInsert /\ OnlyStore
    \/ active = "store" /\ CreateStatementOk /\ UNCHANGED bulkInsert /\ OnlyStore
    \/ active = "store" /\ CreateDailyPartitionsEnd /\ UNCHANGED bulkInsert /\ OnlyStore
    \/ \E batch_data \in BatchesOn(today) :
          active = "store" /\ FlushBatch(batch_data) /\ OnlyStore

(***************************************************************************)
(* The batch processor, the cache, the service, the maintenance of the     *)
(* partitions, the task, the codec and the flushes into the partitions are *)
(* driven one per behaviour.                                               *)
(***************************************************************************)
Init ==
    /\ active \in {"processor", "cache", "service", "maintenance", "route", "task", "codec", "store"}
    /\ DBInit
    /\ CacheInit
    /\ ApiInit
    /\ MaintInit
    /\ TaskInit
    /\ CodecInit
    /\ bulkInsert = NoBulkInsert

Next ==
    \/ DBNext
    \/ CacheNext
    \/ ApiNext
    \/ MaintNext
    \/ RouteNext
    \/ TaskNext
    \/ CodecNext
    \/ StoreNext

Spec == Init /\ [][Next]_vars

(***************************************************************************)
(* Properties                                                              *)
(***************************************************************************)
\* the step in which the write of actor a ends with an exception
FlushFailedStep(a) ==
    /\ inflight[a].phase # "none"
    /\ inflight'[a].phase = "none"
    /\ failedIds' # failedIds

\* the exception of the flush reaches the caller of the flush: add_gps_data
\* and stop() raise, the loop of the background task catches and logs it
RaisedToCaller(a) ==
    /\ a \in Producers => prodPc'[a] = "idle" /\ prodResult'[a] = "error"
    /\ a = "stop" => stopPc' = "raised"
    /\ a = "bg" => bgFailures' = bgFailures + 1

SameMeasurement(r, q) ==
    /\ r.latitude = q.latitude
    /\ r.longitude = q.longitude
    /\ r.speed = q.speed
    /\ r.direction = q.direction
    /\ r.accuracy = q.accuracy

\* C1: after any sequence of committed batches, also of flushes that were in
\* progress at the same time, gps_locations_partitioned holds at most one row
\* per (vehicle_id, timestamp), and the row of a key carries the latitude,
\* longitude, speed, direction and accuracy of the last write committed for
\* that key.
C1_UpsertLastWriteWins ==
    /\ \A r1, r2 \in durable : KeyOf(r1) = KeyOf(r2) => r1 = r2
    /\ \A r \in durable : lastWrite[KeyOf(r)] # NoPoint
    /\ \A k \in Keys :
          lastWrite[k] # NoPoint =>
             \E r \in durable : KeyOf(r) = k /\ SameMeasurement(r, lastWrite[k])

\* a key was written twice with different values and holds the later ones
C1_Witness ==
    \E old \in replaced, r \in durable :
       /\ KeyOf(old) = KeyOf(r)
       /\ old.latitude # r.latitude
       /\ r = lastWrite[KeyOf(r)]

\* C2: when stop() has returned, no point appended before stop() was called
\* is still in the buffer and none was discarded without its write being
\* carried out, whatever the background task was doing.
C2_GracefulDrain ==
    stopPc = "returned" =>
       \A i \in acceptedAtStop :
          /\ i \notin Ids(batch_buffer)
          /\ i \notin droppedIds

\* C3: the points of a batch whose bulk upsert raised are not in the live
\* buffer, not in any batch being written and not in the table, so no later
\* flush writes them; and the exception reaches the caller of the flush.
C3_NoRetryAfterFailure ==
    /\ [](\A i \in failedIds :
             /\ i \notin Ids(batch_buffer)
             /\ \A a \in Actors : i \notin Ids(inflight[a].batch)
             /\ \A r \in durable : r.id # i)
    /\ [][\A a \in Actors : FlushFailedStep(a) => RaisedToCaller(a)]_vars

\* a batch failed and a point appended after it was committed by a later flush
C3_Witness ==
    \E i \in failedIds, r \in durable : r.id > i

\* C4: a bulk upsert that fails, at any row or at the commit, leaves the table
\* exactly as it was, and the exception is propagated.
C4_AllOrNothing ==
    [][\A a \in Actors :
          FlushFailedStep(a) => durable' = durable /\ RaisedToCaller(a)]_vars

\* a batch of several rows failed after an earlier batch had been committed,
\* and the table holds no row of the failed batch
C4_Witness ==
    /\ Cardinality(failedIds) >= 2
    /\ batch_count = 1
    /\ durable # {}
    /\ \A r \in durable : r.id \notin failedIds

ValidCoordinates(lat, lng, spd) ==
    /\ -90 <= lat /\ lat <= 90
    /\ -180 <= lng /\ lng <= 180
    /\ spd >= 0

\* C5: a point with a latitude outside [-90, 90], a longitude outside
\* [-180, 180] or a negative speed never enters a write buffer, a table or
\* the cache, through add_gps_data, cache_gps_point or record_location.
C5_InvalidNeverBuffered ==
    /\ \A r \in gps_locations :
          ValidCoordinates(r.latitude, r.longitude,
                           IF r.speed_is_null THEN 0 ELSE r.speed)
    /\ \A i \in 1..Len(batch_buffer) :
          ValidCoordinates(batch_buffer[i].latitude, batch_buffer[i].longitude,
                           batch_buffer[i].speed)
    /\ \A r \in durable : ValidCoordinates(r.latitude, r.longitude, r.speed)
    /\ \A v \in Vehicles : \A i \in 1..Len(write_buffer[v]) :
          ValidCoordinates(write_buffer[v][i].lat, write_buffer[v][i].lng,
                           write_buffer[v][i].speed)
    /\ \A v \in Vehicles :
          ValidCoordinates(redisCurrent[v].lat, redisCurrent[v].lng,
                           redisCurrent[v].speed)

\* C6: the call that brings a buffer to batch_size points starts the flush of
\* these points and issues its write within the call, before it returns and
\* without a step of the background task.
C6_ImmediateFlushOnSize ==
    [][/\ (nextId' = nextId + 1 /\ Len(batch_buffer) + 1 >= BatchSize) =>
             \E p \in Producers :
                /\ prodPc'[p] = "flushing"
                /\ inflight[p].phase = "none"
                /\ inflight'[p].phase = "execute"
                /\ Ids(inflight'[p].batch) = Ids(batch_buffer) \cup {nextId}
                /\ bgPc' = bgPc
       /\ cacheNextId' = cacheNextId + 1 =>
             \A v \in Vehicles :
                (write_buffer'[v] # write_buffer[v]
                    /\ Len(write_buffer'[v]) >= BatchSize) =>
                   \E p \in CacheProducers :
                      /\ cachePc[p] = "idle"
                      /\ cachePc'[p] = "flushing"
                      /\ cachePipe'[p][v] = write_buffer'[v]
                      /\ cachePc'["bg"] = cachePc["bg"]
      ]_vars

\* an add_gps_data call is suspended in the write of a batch of batch_size
\* points while the background task sleeps
C6_Witness ==
    \E p \in Producers :
       /\ prodPc[p] = "flushing"
       /\ Len(inflight[p].batch) = BatchSize
       /\ bgPc = "sleeping"

VehiclesOf(batch) == { batch[i].vehicle_id : i \in 1..Len(batch) }

PipeReturnedStep(a) ==
    /\ cachePc[a] = "flushing"
    /\ cachePc'[a] # "flushing"
    /\ cacheFailures' = cacheFailures
    /\ ~(a = "bg" /\ cacheCancelReq)

C8_LockNotHeldDuringIO ==
    \A p \in Producers :
       lock = p => inflight[p].phase = "none"

\* C9: a failed timer flush leaves the background task in its loop, asleep
\* until the next interval; the task ends only after stop() or cleanup()
\* asked for it.
C9_LoopSurvivesFailure ==
    /\ [][/\ bgFailures' = bgFailures + 1 => bgPc' = "sleeping"
          /\ cacheBgFailures' = cacheBgFailures + 1 => cachePc'["bg"] = "sleeping"
         ]_vars
    /\ [](bgPc = "done" => ~running)
    /\ [](cachePc["bg"] = "done" => cachePc["cleanup"] = "done")

\* after a failed timer flush the background task is flushing again
C9_Witness ==
    /\ bgFailures >= 1
    /\ bgPc = "flushing"
    /\ running

\* C10: the cache holds a current position or a track entry of a vehicle only
\* if the table holds the row of that point.
C10_CacheOnlyAfterDurable ==
    \A v \in Vehicles :
       /\ redisCurrent[v] # NoLocation =>
             \E r \in durable :
                r.vehicle_id = v /\ r.timestamp = redisCurrent[v].ts
       /\ \A i \in 1..Len(redisTrack[v]) :
             \E r \in durable :
                r.vehicle_id = v /\ Float32(r.timestamp) = redisTrack[v][i][3]

Min(a, b) == IF a < b THEN a ELSE b

\* C11: the list t:<id> of every vehicle holds at most the 200 entries the
\* trim keeps, also when more points than that have been pushed for it.
C11_BoundedHistory ==
    \A v \in Vehicles : Len(redisTrack[v]) <= TrackKeep

\* more points than the trim keeps were pushed for a vehicle and its list is
\* full
C11_Witness ==
    \E v \in Vehicles :
       /\ Len(pushed[v]) > TrackKeep
       /\ Len(redisTrack[v]) = TrackKeep

\* the points get_vehicle_track has to return after the pushes recorded in
\* pushed: the last min(k, limit, N) of them, the latest first, as the
\* five float32 values of each
ExpectedTrack(v, limit) ==
    LET k == Len(pushed[v])
        n == Min(k, Min(limit, TrackKeep))
    IN  [i \in 1..n |->
            DecompressGpsPoint(CompressGpsPoint(pushed[v][k - i + 1]))]

C13_CurrentLocationCacheOnly ==
    /\ \A v \in Vehicles :
          GetVehicleLocation(NoCluster, v) # NotFound => pushed[v] # << >>
    /\ \A v \in Vehicles : \A r \in GetCurrentLocation(v) :
          r # NoRow => redisCurrent[v] # NoLocation

\* C14: the track of a vehicle between two times holds only rows of that
\* vehicle with a timestamp in the range, at most limit of them, in ascending
\* order of the timestamp, from GPSQueryOptimizer.get_vehicle_track and from
\* GPSService.get_tracking_history.
C14_TrackAscending ==
    \A v \in Vehicles, from \in Times, to \in Times, limit \in 1..MaxPoints :
       /\ LET res == QueryVehicleTrack(v, from, to, limit) IN
          /\ Len(res) <= limit
          /\ \A i \in 1..Len(res) :
                /\ res[i].vehicle_id = v
                /\ from <= res[i].timestamp /\ res[i].timestamp <= to
          /\ \A i, j \in 1..Len(res) :
                i < j => res[i].timestamp <= res[j].timestamp
       /\ \A res \in GetTrackingHistory(v, from, to, limit) :
          /\ Len(res) <= limit
          /\ \A i \in 1..Len(res) :
                /\ res[i].vehicle_id = v
                /\ from <= res[i].gps_time /\ res[i].gps_time <= to
          /\ \A i, j \in 1..Len(res) :
                i < j => res[i].gps_time <= res[j].gps_time

\* the days a partition can be dated in a behaviour
PartitionDays == (-2)..(MaxDay + 2)

\* the step that ends a run of cleanup_old_partitions
CleanupEndStep == maintPc = "dropping" /\ maintPc' = "idle"

\* the step that ends a run of create_daily_partitions
CreateEndStep == maintPc = "creating" /\ maintPc' = "idle"

\* C15: a run of cleanup_old_partitions(r) started on day T, none of whose
\* statements failed, removes every daily partition dated before T - r; any
\* run keeps every partition dated T - r or later with its rows, the parent
\* table and every table that is not a daily partition, and creates nothing.
C15_DropsOnlyExpired ==
    [][CleanupEndStep =>
          /\ failedNames = {} =>
                \A n \in PartitionDays :
                   n < cutoff_date => PartitionName(n) \notin tables'
          /\ \A n \in PartitionDays :
                (n >= cutoff_date /\ PartitionName(n) \in tables) =>
                   /\ PartitionName(n) \in tables'
                   /\ \A r \in tableRows :
                         r.table = PartitionName(n) => r \in tableRows'
          /\ ParentTable \in tables'
          /\ OtherTables \subseteq tables'
          /\ tables' \subseteq tables
      ]_vars

\* a cleanup has dropped the partition of the day before its cutoff date and
\* kept the partition of the cutoff date
C15_Witness ==
    /\ lastRun = "cleanup"
    /\ maintPc = "idle"
    /\ PartitionName(cutoff_date - 1) \in droppedTables
    /\ PartitionName(cutoff_date - 1) \notin tables
    /\ PartitionName(cutoff_date) \in tables

\* C16: a run of create_daily_partitions(d) started on day T, none of whose
\* statements failed, leaves the partition of every day from T - 1 to T + d;
\* it creates no other table, removes none, touches no row, and changes
\* nothing when these partitions exist already.
C16_EnsureWindowIdempotent ==
    [][CreateEndStep =>
          LET window == { PartitionName(base_date + i) : i \in (-1)..days_ahead } IN
          /\ failedNames = {} => window \subseteq tables'
          /\ tables \subseteq tables'
          /\ tables' \ tables \subseteq window
          /\ tableRows' = tableRows
          /\ window \subseteq tables => tables' = tables
      ]_vars

\* a second run on the same day found every partition of its window, one of
\* them with a row, and changed nothing
C16_Witness ==
    /\ lastRun = "create, nothing new"
    /\ maintPc = "idle"
    /\ { PartitionName(today + i) : i \in (-1)..0 } \subseteq tables
    /\ \E r \in tableRows : r.table = PartitionName(today - 1)

\* C17: when the statement of one partition fails in a maintenance run, the
\* partitions of the run whose statement did not fail for a reason of its
\* own are still created (dropped).
C17_FailureDoesNotStopOthers ==
    [][/\ CreateEndStep =>
             \A i \in (-1)..days_ahead :
                PartitionName(base_date + i) \notin ownFailures =>
                   PartitionName(base_date + i) \in tables'
       /\ CleanupEndStep =>
             \A n \in PartitionDays :
                (n < cutoff_date /\ PartitionName(n) \notin ownFailures) =>
                   PartitionName(n) \notin tables'
      ]_vars


\* C18: get_nearby_vehicles(center, radius_km) returns exactly the vehicles
\* whose current position, the one get_vehicle_location returns, is at
\* distance <= radius_km from the center, each once with that distance, in
\* ascending order of distance.
C18_NearbyExactAndSorted ==
    \A c \in Centers, radius_km \in RadiusKmArgs :
       \A result \in GetNearbyVehicles(c[2], c[1], radius_km) :
          LET current(v) == GetVehicleLocation(NoCluster, v)
              place(v) == << current(v).longitude, current(v).latitude >>
              near(v) == /\ current(v) # NotFound
                         /\ HaversineKm(c, place(v)) <= radius_km
          IN  /\ \A v \in Vehicles :
                    near(v) <=> \E i \in 1..Len(result) : result[i][1] = v
              /\ \A i \in 1..Len(result) :
                    /\ result[i][2] = HaversineKm(c, place(result[i][1]))
                    /\ \A j \in 1..Len(result) :
                          (i < j => result[i][2] <= result[j][2])
                          /\ (result[i][1] = result[j][1] => i = j)

\* the latest row of a vehicle in the table
LatestRow(v) ==
    CHOOSE r \in durable :
       /\ r.vehicle_id = v
       /\ \A q \in durable : q.vehicle_id = v => q.timestamp <= r.timestamp

\* C19: get_vehicles_in_area returns a vehicle only if its latest position
\* is not older than the time window and lies within the radius of the
\* center.
C19_OnlyCurrentPositionInArea ==
    \A c \in Centers, radius_meters \in RadiusMetersArgs,
       w \in WindowArgs, now \in NowArgs :
       \A result \in GetVehiclesInArea(c[2], c[1], radius_meters, w, now) :
          \A i \in 1..Len(result) :
             LET latest == LatestRow(result[i].vehicle_id) IN
             /\ latest.timestamp >= now - w
             /\ HaversineKm(<< latest.longitude, latest.latitude >>, c) * 1000
                   <= radius_meters

\* C20: with a cluster of K clients, the point flushed for a vehicle was
\* written to the client hash(vehicle_id) mod K, the same in every process,
\* and get_vehicle_location and get_vehicle_track read it from that client.
C20_SameShardForWriteAndRead ==
    \A cfg \in CacheConfigs, v \in Vehicles :
       (cfg.cluster /\ pushed[v] # << >>) =>
          /\ WriteClient(cfg, v) = GetShardIndex(cfg.seed, v, cfg.client_count)
          /\ ReadClient(cfg, v) = WriteClient(cfg, v)
          /\ \A other \in CacheConfigs :
                (other.cluster /\ other.client_count = cfg.client_count) =>
                   ReadClient(other, v) = ReadClient(cfg, v)
          /\ redisCurrent[v] # NoLocation =>
                GetVehicleLocation(cfg, v) = GetVehicleLocation(NoCluster, v)
          /\ GetVehicleTrack(cfg, v, TrackKeep) =
                GetVehicleTrack(NoCluster, v, TrackKeep)

\* the pairs (i - 1, i) of a track that are stop intervals as the claims
\* define them: reported speed of the later point below 5, more than 2
\* minutes apart
StopIntervals(gps_points) ==
    { i \in 2..Len(gps_points) :
         /\ gps_points[i].speed < 5
         /\ TimeDiff(gps_points, i) > 2 }

\* C21: stop_duration is the sum of the elapsed minutes of the stop
\* intervals of the track, a later point of speed 0 included, and a track
\* with one stop interval has stop_count 1.
C21_StopIntervals ==
    active = "route" => \A gps_points \in RouteTracks :
       Len(gps_points) >= 2 =>
          LET r == AnalyzeRoute(gps_points)
              elapsed == [i \in 2..Len(gps_points) |-> TimeDiff(gps_points, i)]
          IN  /\ r.stop_duration = SumFn(elapsed, StopIntervals(gps_points))
              /\ Cardinality(StopIntervals(gps_points)) = 1 => r.stop_count = 1

\* number of maximal runs of consecutive members of a set of indices
Runs(S) == Cardinality({ i \in S : (i - 1) \notin S })

\* C22: stop_count is the number of maximal runs of adjacent gaps that the
\* loop takes as stops.
C22_StopRunsCountedOnce ==
    active = "route" => \A gps_points \in RouteTracks :
       Len(gps_points) >= 2 =>
          AnalyzeRoute(gps_points).stop_count = Runs(StopSteps(gps_points))

\* the absolute value
Abs(n) == IF n < 0 THEN -n ELSE n

\* C23: average_speed is total_distance / (total_duration / 60), up to the
\* rounding of the distances to the km and of the result, and 0 when the
\* duration is 0.
C23_AverageFromDistanceAndTime ==
    active = "route" => \A gps_points \in RouteTracks :
       LET r == AnalyzeRoute(gps_points) IN
       IF r.total_duration = 0 THEN r.average_speed = 0
       ELSE Abs(r.average_speed * r.total_duration - 6000 * r.total_distance)
               <= 3000 * (Len(gps_points) - 1) + r.total_duration

\* C24: max_speed is the greatest reported speed of the points of the
\* track, the first one included.
C24_MaxSpeedOverEveryPoint ==
    active = "route" => \A gps_points \in RouteTracks :
       Len(gps_points) >= 2 =>
          /\ \A i \in 1..Len(gps_points) :
                gps_points[i].speed <= AnalyzeRoute(gps_points).max_speed
          /\ \E i \in 1..Len(gps_points) :
                gps_points[i].speed = AnalyzeRoute(gps_points).max_speed

\* C25: a track of fewer than 2 points has all metrics 0, whatever the
\* speed of its point.
C25_ShortTrackAllZero ==
    \A gps_points \in RouteTracks :
       Len(gps_points) < 2 =>
          LET r == AnalyzeRoute(gps_points) IN
          /\ r.total_distance = 0 /\ r.total_duration = 0
          /\ r.average_speed = 0 /\ r.max_speed = 0
          /\ r.stop_count = 0 /\ r.stop_duration = 0

\* the shipment has one recorded point, and its speed is 60
C25_Witness ==
    /\ active = "route"
    /\ apiPc = "idle"
    /\ \E gps_points \in RouteTracks :
          Len(gps_points) = 1 /\ gps_points[1].speed = 60

\* the row of a vehicle with the least (greatest) timestamp at or after since
EarliestRow(v, since) ==
    CHOOSE r \in durable :
       /\ r.vehicle_id = v /\ r.timestamp >= since
       /\ \A q \in durable :
             (q.vehicle_id = v /\ q.timestamp >= since) => r.timestamp <= q.timestamp
LatestRowSince(v, since) ==
    CHOOSE r \in durable :
       /\ r.vehicle_id = v /\ r.timestamp >= since
       /\ \A q \in durable :
             (q.vehicle_id = v /\ q.timestamp >= since) => q.timestamp <= r.timestamp

\* C26: when a requested vehicle has a point in the window,
\* get_vehicle_statistics returns an entry exactly for the requested
\* vehicles with a point in the window, with the number of these points,
\* their greatest speed, their first and last timestamp, and the distance
\* between the places of the earliest and the latest of them.
C26_StatsPerVehicle ==
    \A vehicle_ids \in SUBSET Vehicles, w \in WindowArgs, now \in NowArgs :
       LET since == now - w
           inWindow(v) == { r \in durable : r.vehicle_id = v /\ r.timestamp >= since }
           stats == GetVehicleStatistics(vehicle_ids, w, now)
       IN  (\E v \in vehicle_ids : inWindow(v) # {}) =>
              /\ stats # QueryError
              /\ DOMAIN stats = { v \in vehicle_ids : inWindow(v) # {} }
              /\ \A v \in DOMAIN stats :
                    /\ stats[v].point_count = Cardinality(inWindow(v))
                    /\ \A r \in inWindow(v) : r.speed <= stats[v].max_speed
                    /\ stats[v].first_update = EarliestRow(v, since).timestamp
                    /\ stats[v].last_update = LatestRowSince(v, since).timestamp
                    /\ stats[v].distance_km =
                          HaversineKm(<< EarliestRow(v, since).longitude,
                                         EarliestRow(v, since).latitude >>,
                                      << LatestRowSince(v, since).longitude,
                                         LatestRowSince(v, since).latitude >>)

\* C27: a process_gps_batch that has ended has returned a report with
\* processed_count + error_count = total_count = the length of the list, and
\* processed_count rows have been stored.
C27_BatchAccounting ==
    taskPc \in {"failed", "done"} =>
       /\ taskReport # NoReport
       /\ taskReport.total_count = Len(taskList)
       /\ taskReport.processed_count + taskReport.error_count = Len(taskList)
       /\ taskReport.processed_count = Cardinality(gps_locations)

\* C28: _decompress_gps_point raises for every block that is not 20 bytes
\* long and returns a point only for a block of 20 bytes.
C28_DecodeRejectsWrongLength ==
    codecResult # Pending =>
       (codecResult.raised = "no" <=> ByteLength(codecBlock) = 20)

\* C29: _compress_gps_point gives 20 bytes holding lat, lng, timestamp,
\* speed, direction in this order, and _decompress_gps_point of them gives
\* the five fields of the point back, the timestamp to the second.
C29_CodecRoundTrip ==
    codecPoint # NoGPSPoint =>
       /\ ByteLength(codecBlock) = 20
       /\ codecResult # Pending =>
             /\ codecResult.raised = "no"
             /\ codecResult.point.lat = codecPoint.lat
             /\ codecResult.point.lng = codecPoint.lng
             /\ codecResult.point.timestamp = codecPoint.timestamp
             /\ codecResult.point.speed = codecPoint.speed
             /\ codecResult.point.direction = codecPoint.direction

\* the points of a sequence
PointsOf(points) == { points[i] : i \in 1..Len(points) }

\* C30: a point in write_buffer is never cleared from it without having been
\* sent: every point a step removes from the buffer is among the points the
\* server has been given or in a pipeline that is still under way, also a
\* point that cache_gps_point appended while a flush was suspended in
\* pipe.execute().
C30_NoPointClearedUnsent ==
    [][\A v \in Vehicles :
          (PointsOf(write_buffer[v]) \ PointsOf(write_buffer'[v]))
              \subseteq (PointsOf(pushed'[v]) \cup
                         UNION { PointsOf(cachePipe'[a][v]) : a \in CacheActors })]_vars

\* the actors whose batch holds the point with identity i
BatchesOf(i) == { a \in Actors : i \in Ids(inflight[a].batch) }

\* C31: every accepted point is swapped out into exactly one flush batch.
\* A point that leaves the buffer is from then on in the batch of exactly one
\* flush; a point is never in the buffer and in a batch, never in the batches
\* of two flushes, never twice in the buffer, and a point that has left the
\* buffer or a batch does not come back to it.
C31_SwappedIntoOneBatch ==
    [][/\ \A i \in Ids(batch_buffer) \ Ids(batch_buffer') :
             /\ BatchesOf(i) = {}
             /\ \E a \in Actors :
                   /\ i \in Ids(inflight'[a].batch)
                   /\ \A b \in Actors \ {a} : i \notin Ids(inflight'[b].batch)
       /\ \A i \in Ids(batch_buffer') :
             /\ \A a \in Actors : i \notin Ids(inflight'[a].batch)
             /\ i \in Ids(batch_buffer) \/ i = nextId
       /\ \A a \in Actors : \A i \in Ids(inflight'[a].batch) :
             /\ i \in Ids(inflight[a].batch) \/ i \in Ids(batch_buffer) \/ i = nextId
             /\ \A b \in Actors \ {a} : i \notin Ids(inflight'[b].batch)
       /\ Cardinality(Ids(batch_buffer')) = Len(batch_buffer')]_vars

\* the flush of a producer, started under the lock, and the flush of the
\* timer, started without it, are both writing a batch
C31_Witness ==
    \E p \in Producers :
       /\ inflight[p].phase # "none"
       /\ inflight["bg"].phase # "none"
       /\ lock = p

\* C32: a timer tick leaves a point in the buffer only when a flush has
\* completed since the sleep began, and no point is left in the buffer by
\* two ticks: the second tick after a point was accepted finds it swapped
\* out by a flush, or swaps it out itself.
C32_FlushedBySecondTick ==
    [][/\ \A i \in PointIds : skips'[i] <= 1
       /\ \A i \in PointIds : skips'[i] > skips[i] => flushedSinceSleep]_vars

\* a tick has left a point in the buffer because a flush had just completed;
\* the processor is running and the next tick is due
C32_Witness ==
    /\ running /\ ~cancelReq
    /\ bgPc = "sleeping"
    /\ ~flushedSinceSleep
    /\ batch_count > 0
    /\ \E i \in Ids(batch_buffer) : skips[i] = 1

\* C33: a flush succeeds only if every point of the batch falls in a daily
\* partition that exists, and then all its rows are stored; a batch with one
\* point outside every partition raises and leaves the table as it was, so
\* none of its other points is written.
C33_OneRowOutsideFailsBatch ==
    [][bulkInsert' # bulkInsert =>
          LET batch_data == bulkInsert'.batch_data
              inside == \A i \in 1..Len(batch_data) :
                           PartitionName(batch_data[i]) \in tables
          IN  /\ bulkInsert'.raised = "no" <=> inside
              /\ bulkInsert'.raised = "error" <=> ~inside
              /\ inside => tableRows' =
                     tableRows \cup { RowOfDay(batch_data[i]) : i \in 1..Len(batch_data) }
              /\ ~inside => tableRows' = tableRows
      ]_vars

\* a batch of a point of today, whose partition exists, followed by a point
\* beyond the window has raised, and the row of today is not in the table
C33_Witness ==
    /\ bulkInsert.raised = "error"
    /\ bulkInsert.batch_data = << today, today + 2 >>
    /\ PartitionName(today) \in tables
    /\ PartitionName(today + 2) \notin tables
    /\ RowOfDay(today) \notin tableRows
    /\ tableRows # {}

\* the days of the window create_daily_partitions(d) makes on a day
WindowOf(day, d) == (day - 1)..(day + d)

\* C34: a cleanup run, whatever its retention_days >= 1, selects no
\* partition of the window from yesterday to today + days_ahead that
\* create_daily_partitions makes on that day, and when it ends every
\* partition from yesterday on that was there is still there.
C34_DropKeepsWindow ==
    [][/\ (maintPc = "idle" /\ maintPc' = "dropping") =>
             \A d \in DaysAheadArgs : \A n \in WindowOf(today, d) :
                \A i \in 1..Len(partitions_to_drop') :
                   partitions_to_drop'[i] # PartitionName(n)
       /\ CleanupEndStep =>
             \A n \in PartitionDays :
                (n >= today - 1 /\ PartitionName(n) \in tables) =>
                   PartitionName(n) \in tables'
      ]_vars

\* on one day the window of days_ahead = 1 was there, a cleanup with
\* retention_days = 1 has run and dropped an older partition, and the window
\* is still there
C34_Witness ==
    /\ lastRun = "cleanup"
    /\ maintPc = "idle"
    /\ cutoff_date = today - 1
    /\ droppedTables # {}
    /\ \A n \in WindowOf(today, 1) : PartitionName(n) \in tables

\* the greatest timestamp among points
MaxTimestamp(points) ==
    CHOOSE t \in { points[i].timestamp : i \in 1..Len(points) } :
       \A i \in 1..Len(points) : points[i].timestamp <= t

\* C35: the hash v:<id> of a vehicle, while it has not expired, holds the
\* point with the greatest timestamp among the points the pipelines have
\* written for the vehicle: an older point written later does not replace it.
C35_CurrentIsNewestFlushed ==
    \A v \in Vehicles :
       (pushed[v] # << >> /\ redisCurrent[v] # NoLocation) =>
          redisCurrent[v].ts = MaxTimestamp(pushed[v])

\* C36: every vehicle get_nearby_vehicles returns has a current position:
\* get_vehicle_location finds its hash v:<id>.
C36_GeoEntryHasCurrentPosition ==
    \A c \in Centers, radius_km \in RadiusKmArgs :
       \A result \in GetNearbyVehicles(c[2], c[1], radius_km) :
          \A i \in 1..Len(result) :
             GetVehicleLocation(NoCluster, result[i][1]) # NotFound

\* C37: the table gps_locations holds at most one row per vehicle and
\* gps_time, however many times record_location was called with that key.
C37_OneRowPerKey ==
    \A r \in gps_locations, q \in gps_locations :
       (r.vehicle_id = q.vehicle_id /\ r.gps_time = q.gps_time) => r = q

\* C38: a call of record_location that raises GPSServiceError leaves the
\* table as it was; a call that does not raise has stored exactly one new
\* row, the one it returns; _update_vehicle_location, whether its UPDATE
\* succeeds or fails, ends the call with the row returned and the table as
\* the commit left it.
C38_RecordLocationAtomic ==
    [][/\ (apiNextId' # apiNextId /\ apiResult' = "error") =>
             gps_locations' = gps_locations
       /\ (apiNextId' # apiNextId /\ apiResult' # "error") =>
             /\ apiRow' \notin gps_locations
             /\ gps_locations' = gps_locations \cup {apiRow'}
       /\ (apiPc = "updating" /\ apiPc' = "idle") =>
             /\ apiResult' = "ok"
             /\ apiRow \in gps_locations
             /\ gps_locations' = gps_locations
      ]_vars

\* the points of the batches being written
RECURSIVE InFlightPoints(_)
InFlightPoints(as) ==
    IF as = {} THEN 0
    ELSE LET a == CHOOSE x \in as : TRUE
         IN  Len(inflight[a].batch) + InFlightPoints(as \ {a})

\* C39: the points appended to the buffer are as many as total_processed
\* plus the points in the buffer, in the batches being written, in the
\* batches whose write raised and in the batches whose flush was cancelled;
\* total_processed and batch_count change only in the step in which a batch
\* is committed, by its length and by one; processing_times never holds more
\* samples than the cut keeps.
C39_PointAccounting ==
    /\ [](nextId - 1 = total_processed + Len(batch_buffer)
                         + InFlightPoints(Actors)
                         + Cardinality(failedIds) + Cardinality(cancelledIds))
    /\ [][(total_processed' # total_processed \/ batch_count' # batch_count) =>
             \E a \in Actors :
                /\ inflight[a].phase = "commit"
                /\ inflight'[a] = NoWrite
                /\ durable' = CommitTx(durable, inflight[a].batch)
                /\ total_processed' = total_processed + Len(inflight[a].batch)
                /\ batch_count' = batch_count + 1
         ]_vars
    /\ [](Len(processing_times) <= HistoryKeep)

\* more batches were committed than the history keeps, and the history
\* holds the samples of the last of them
C39_Witness ==
    /\ batch_count > HistoryKeep
    /\ Len(processing_times) = HistoryKeep
    /\ processing_times[HistoryKeep] = batch_count
    /\ total_processed = nextId - 1

====
